---- MODULE Spec2Model ----
(***************************************************************************)
(* LibraFlux (lbctl): the IPVS diff/reconciler, the VIP-gated engine and   *)
(* the health probers that feed it, as a state machine.                    *)
(***************************************************************************)
EXTENDS Integers, Sequences, FiniteSets, TLC

VARIABLES
    kernel,             \* the IPVS tables behind ipvs.Manager: Services and Destinations by service key
    lastApply,          \* the most recent Reconciler.Apply invocation: inputs, Manager calls, result
    cfg,                \* Engine.cfg (config snapshot); NoConfig before the first load
    cfgHash,            \* Engine.cfgHash
    active,             \* Engine.active
    pendingReconcile,   \* Engine.pendingReconcile
    pendingDisable,     \* Engine.pendingDisable
    backendWeights,     \* Engine.backendWeights: BackendKey -> effective weight
    scheduler,          \* Engine.scheduler: generation of the running health.Scheduler, 0 = nil
    reconcileAttempts,  \* Engine.reconcileAttempts
    retryWait,          \* Engine.nextReconcileRetry as time left until it (ms); -1 = already passed
    reconcileReqCh,     \* number of requests buffered in Engine.reconcileReqCh (capacity 1)
    reloadCh,           \* number of notifications buffered in the reload channel (capacity 1)
    pc,                 \* where the engine goroutine stands in Run and its handlers
    local,              \* locals of the handler the engine goroutine is in
    runners,            \* health.Scheduler.runners of every generation: runner id -> runner
    emitted,            \* audit events and metric increments produced by the last step
    hist,               \* history: what the run has seen (used to state the claims)
    observer,           \* the health.Observer of a scheduler run on its own: callbacks received
    cache,              \* ipvs.CachedManager: its fields and its RWMutex
    clock,              \* time.Now() for the cache, in milliseconds
    goroutines,         \* goroutines calling into the cache: id -> the call in progress
    signals,            \* ContextWithSignals: the signal channel, the context, the handler goroutine
    stop                \* health.Scheduler.stopped and the goroutines inside Scheduler.Stop

vars == <<kernel, lastApply, cfg, cfgHash, active, pendingReconcile, pendingDisable,
          backendWeights, scheduler, reconcileAttempts, retryWait, reconcileReqCh,
          reloadCh, pc, local, runners, emitted, hist, observer, cache, clock, goroutines,
          signals, stop>>

\* the components that are exercised on their own, outside the daemon's loop
ComponentVars == <<observer, cache, clock, goroutines, signals, stop>>

(***************************************************************************)
(* Maps (Go map[K]V) as functions with a finite domain.                    *)
(***************************************************************************)
EmptyMap == [x \in {} |-> x]
MapPut(m, k, v) == [x \in (DOMAIN m) \cup {k} |-> IF x = k THEN v ELSE m[x]]
MapDel(m, k) == [x \in (DOMAIN m) \ {k} |-> m[x]]
Reverse(s) == [i \in 1..Len(s) |-> s[Len(s) + 1 - i]]

(***************************************************************************)
(* net.IP.  An address is its four bytes; ParseIP reads a text form and    *)
(* String writes the canonical one.  The IPv4-mapped text form parses to   *)
(* the same address as the dotted one.                                     *)
(***************************************************************************)
NilIP == <<>>

ParseIP(text) ==
    CASE text = "192.0.2.10"        -> <<192, 0, 2, 10>>
      [] text = "::ffff:192.0.2.10" -> <<192, 0, 2, 10>>
      [] text = "192.0.2.11"        -> <<192, 0, 2, 11>>
      [] text = "198.51.100.7"      -> <<198, 51, 100, 7>>
      [] text = "10.0.0.1"          -> <<10, 0, 0, 1>>
      [] text = "10.0.0.2"          -> <<10, 0, 0, 2>>
      [] OTHER                      -> NilIP

IPString(ip) ==
    CASE ip = <<192, 0, 2, 10>>   -> "192.0.2.10"
      [] ip = <<192, 0, 2, 11>>   -> "192.0.2.11"
      [] ip = <<198, 51, 100, 7>> -> "198.51.100.7"
      [] ip = <<10, 0, 0, 1>>     -> "10.0.0.1"
      [] ip = <<10, 0, 0, 2>>     -> "10.0.0.2"
      [] OTHER                    -> "<nil>"

(***************************************************************************)
(* ipvs.Service, ipvs.Destination and their keys.                          *)
(***************************************************************************)
\* Service.Key: fmt.Sprintf("%s:%s:%d", Protocol, Address.String(), Port)
ServiceKey(s) == [protocol |-> s.Protocol, address |-> IPString(s.Address), port |-> s.Port]

\* Destination.Key: fmt.Sprintf("%s:%d", Address.String(), Port)
DestinationKey(d) == [address |-> IPString(d.Address), port |-> d.Port]

NoDestination == [Address |-> NilIP, Port |-> 0, Weight |-> 0]
NoService == [Address |-> NilIP, Protocol |-> "", Port |-> 0, Scheduler |-> ""]

\* ProtocolToUint16: lower-cased and trimmed "udp" is IPPROTO_UDP (17), anything else IPPROTO_TCP (6)
ProtocolToUint16(proto) == IF proto \in {"udp", "UDP", " udp "} THEN 17 ELSE 6

(***************************************************************************)
(* Go ranges over a map in an unspecified order.  The model draws the      *)
(* order of one pass from two: ascending and descending by key.            *)
(***************************************************************************)
AddressRank(a) ==
    CASE a = "10.0.0.1" -> 1 [] a = "10.0.0.2" -> 2 [] a = "192.0.2.10" -> 3
      [] a = "198.51.100.7" -> 4 [] OTHER -> 5

ServiceRank(k) == k.port * 100 + (IF k.protocol = "udp" THEN 10 ELSE 0) + AddressRank(k.address)
DestinationRank(k) == k.port * 10 + AddressRank(k.address)

RECURSIVE ServiceKeysAscending(_)
ServiceKeysAscending(S) ==
    IF S = {} THEN <<>>
    ELSE LET k == CHOOSE x \in S : \A y \in S : ServiceRank(x) <= ServiceRank(y)
         IN <<k>> \o ServiceKeysAscending(S \ {k})

RECURSIVE DestinationKeysAscending(_)
DestinationKeysAscending(S) ==
    IF S = {} THEN <<>>
    ELSE LET k == CHOOSE x \in S : \A y \in S : DestinationRank(x) <= DestinationRank(y)
         IN <<k>> \o DestinationKeysAscending(S \ {k})

RangeServiceKeys(S, rev) == IF rev THEN Reverse(ServiceKeysAscending(S)) ELSE ServiceKeysAscending(S)
RangeDestinationKeys(S, rev) ==
    IF rev THEN Reverse(DestinationKeysAscending(S)) ELSE DestinationKeysAscending(S)

(***************************************************************************)
(* ipvs.Manager.  The tables follow MockManager: a service map and, per    *)
(* service key, a destination list.  A call named in `fail` returns an     *)
(* error and changes nothing (kernel refusal or transport failure).        *)
(***************************************************************************)
EmptyKernel == [Services |-> EmptyMap, Destinations |-> EmptyMap]

Call(kind, svc, dst) == [kind |-> kind, svc |-> svc, dst |-> dst]

MutationKinds == {"CreateService", "UpdateService", "DeleteService",
                  "CreateDestination", "UpdateDestination", "DeleteDestination"}

\* MockManager.GetServices
GetServices(k) == {k.Services[key] : key \in DOMAIN k.Services}

\* MockManager.GetDestinations
GetDestinations(k, svc) ==
    IF ServiceKey(svc) \in DOMAIN k.Destinations THEN k.Destinations[ServiceKey(svc)] ELSE <<>>

SetDestinations(k, key, dests) ==
    [k EXCEPT !.Destinations = IF dests = <<>> THEN MapDel(@, key) ELSE MapPut(@, key, dests)]

\* MockManager.CreateService / UpdateService
CreateService(k, svc) == [k EXCEPT !.Services = MapPut(@, ServiceKey(svc), svc)]
UpdateService(k, svc) == [k EXCEPT !.Services = MapPut(@, ServiceKey(svc), svc)]

\* MockManager.DeleteService
DeleteService(k, svc) ==
    [Services |-> MapDel(k.Services, ServiceKey(svc)),
     Destinations |-> MapDel(k.Destinations, ServiceKey(svc))]

\* MockManager.CreateDestination
CreateDestination(k, svc, dst) ==
    SetDestinations(k, ServiceKey(svc), Append(GetDestinations(k, svc), dst))

\* MockManager.UpdateDestination: replaces the first destination with the key
DestinationFound(k, svc, dst) ==
    \E i \in 1..Len(GetDestinations(k, svc)) :
        DestinationKey(GetDestinations(k, svc)[i]) = DestinationKey(dst)

UpdateDestination(k, svc, dst) ==
    LET dests == GetDestinations(k, svc)
        first == CHOOSE i \in 1..Len(dests) :
                    /\ DestinationKey(dests[i]) = DestinationKey(dst)
                    /\ \A j \in 1..(i - 1) : DestinationKey(dests[j]) # DestinationKey(dst)
    IN SetDestinations(k, ServiceKey(svc), [dests EXCEPT ![first] = dst])

\* MockManager.DeleteDestination
DeleteDestination(k, svc, dst) ==
    LET keep(d) == DestinationKey(d) # DestinationKey(dst)
    IN SetDestinations(k, ServiceKey(svc), SelectSeq(GetDestinations(k, svc), keep))

\* whether a mutating call returns an error
CallFails(k, c, fail) ==
    \/ c \in fail
    \/ c.kind = "UpdateDestination" /\ ~DestinationFound(k, c.svc, c.dst)

\* the tables after a mutating call that succeeded
CallEffect(k, c) ==
    CASE c.kind = "CreateService"     -> CreateService(k, c.svc)
      [] c.kind = "UpdateService"     -> UpdateService(k, c.svc)
      [] c.kind = "DeleteService"     -> DeleteService(k, c.svc)
      [] c.kind = "CreateDestination" -> CreateDestination(k, c.svc, c.dst)
      [] c.kind = "UpdateDestination" -> UpdateDestination(k, c.svc, c.dst)
      [] c.kind = "DeleteDestination" -> DeleteDestination(k, c.svc, c.dst)
      [] OTHER                        -> k

\* One Manager call made by the reconciler: st is [kernel, calls, failed, ok].
Invoke(st, c, fail) ==
    IF CallFails(st.kernel, c, fail)
    THEN [st EXCEPT !.calls = Append(@, c), !.failed = @ \cup {c}, !.ok = FALSE]
    ELSE [st EXCEPT !.kernel = CallEffect(@, c), !.calls = Append(@, c), !.ok = TRUE]

(***************************************************************************)
(* Reconciler.expandConfig: declarative services -> kernel records by key. *)
(***************************************************************************)
\* one port range, Start..End inclusive (the loop `for p := pr.Start; p <= pr.End; p++`)
RangePorts(pr) == [i \in 1..(pr.End - pr.Start + 1) |-> (pr.Start + i - 1) % 65536]

RECURSIVE RangesPorts(_)
RangesPorts(ranges) ==
    IF ranges = <<>> THEN <<>> ELSE RangePorts(Head(ranges)) \o RangesPorts(Tail(ranges))

\* "Collect ports": explicit ports, then the ranges left to right, each cast to uint16
CollectPorts(svc) == [i \in 1..Len(svc.Ports) |-> svc.Ports[i] % 65536] \o RangesPorts(svc.PortRanges)

\* "Resolve destination ports": backend port 0 inherits the service port
ResolveDestinations(backends, port) ==
    [i \in 1..Len(backends) |->
        [Address |-> ParseIP(backends[i].Address),
         Port    |-> IF backends[i].Port % 65536 = 0 THEN port ELSE backends[i].Port % 65536,
         Weight  |-> backends[i].Weight]]

RECURSIVE ExpandPorts(_, _, _, _)
ExpandPorts(result, svc, ports, parsedVIP) ==
    IF ports = <<>> THEN result
    ELSE LET port    == Head(ports)
             ipvsSvc == [Address   |-> parsedVIP,
                         Protocol  |-> IF ProtocolToUint16(svc.Protocol) = 17 THEN "udp" ELSE "tcp",
                         Port      |-> port,
                         Scheduler |-> svc.Scheduler]
             state   == [Service |-> ipvsSvc,
                         Destinations |-> ResolveDestinations(svc.Backends, port)]
         IN ExpandPorts(MapPut(result, ServiceKey(ipvsSvc), state), svc, Tail(ports), parsedVIP)

RECURSIVE ExpandServices(_, _, _)
ExpandServices(result, services, parsedVIP) ==
    IF services = <<>> THEN result
    ELSE ExpandServices(ExpandPorts(result, Head(services), CollectPorts(Head(services)), parsedVIP),
                        Tail(services), parsedVIP)

expandConfig(services, vip) == ExpandServices(EmptyMap, services, ParseIP(vip))

(***************************************************************************)
(* Reconciler.reconcileDestinations.  A pass state st is                   *)
(* [kernel, calls, failed, ok]; the result adds err (the returned error).  *)
(***************************************************************************)
\* currentMap[dest.Key()] = dest over the enumerated list (a later entry replaces an earlier one)
DestinationMap(current) ==
    [key \in {DestinationKey(current[i]) : i \in 1..Len(current)} |->
        current[CHOOSE i \in 1..Len(current) :
                    /\ DestinationKey(current[i]) = key
                    /\ \A j \in (i + 1)..Len(current) : DestinationKey(current[j]) # key]]

DesiredDestinationKeys(desired) == {DestinationKey(desired[i]) : i \in 1..Len(desired)}

\* first loop: create what is missing, update what differs in weight; returns on the first error
RECURSIVE UpsertDestinations(_, _, _, _, _, _)

\* after the Create or Update call for desired[i]: "return err", or on to desired[i + 1]
UpsertNext(s1, svc, desired, i, currentMap, fail) ==
    IF ~s1.ok THEN [st |-> s1, err |-> TRUE]
    ELSE UpsertDestinations(s1, svc, desired, i + 1, currentMap, fail)

\* "currDest.Weight = dest.Weight" on the map's entry, then UpdateDestination with it
UpdateWeight(st, svc, desired, i, currentMap, key, currDest, fail) ==
    UpsertNext(Invoke(st, Call("UpdateDestination", svc, currDest), fail), svc, desired, i,
               MapPut(currentMap, key, currDest), fail)

UpsertDestinations(st, svc, desired, i, currentMap, fail) ==
    IF i > Len(desired) THEN [st |-> st, err |-> FALSE]
    ELSE IF DestinationKey(desired[i]) \notin DOMAIN currentMap
    THEN UpsertNext(Invoke(st, Call("CreateDestination", svc, desired[i]), fail), svc, desired, i,
                    currentMap, fail)
    ELSE IF currentMap[DestinationKey(desired[i])].Weight # desired[i].Weight
    THEN UpdateWeight(st, svc, desired, i, currentMap, DestinationKey(desired[i]),
                      [currentMap[DestinationKey(desired[i])] EXCEPT !.Weight = desired[i].Weight],
                      fail)
    ELSE UpsertDestinations(st, svc, desired, i + 1, currentMap, fail)

\* second loop: delete what is no longer desired; returns on the first error
RECURSIVE PruneDestinations(_, _, _, _, _, _)

\* after the Delete call for Head(keys): "return err", or on to the next key
PruneNext(s1, svc, desired, keys, currentMap, fail) ==
    IF ~s1.ok THEN [st |-> s1, err |-> TRUE]
    ELSE PruneDestinations(s1, svc, desired, Tail(keys), currentMap, fail)

PruneDestinations(st, svc, desired, keys, currentMap, fail) ==
    IF keys = <<>> THEN [st |-> st, err |-> FALSE]
    ELSE IF Head(keys) \in DesiredDestinationKeys(desired)
    THEN PruneDestinations(st, svc, desired, Tail(keys), currentMap, fail)
    ELSE PruneNext(Invoke(st, Call("DeleteDestination", svc, currentMap[Head(keys)]), fail),
                   svc, desired, keys, currentMap, fail)

\* the second loop, entered unless the first one returned an error
PruneAfter(upserted, svc, desired, currentMap, fail, rev) ==
    IF upserted.err THEN upserted
    ELSE PruneDestinations(upserted.st, svc, desired,
                           RangeDestinationKeys(DOMAIN currentMap, rev), currentMap, fail)

\* both loops over the map built from the enumerated list
ReconcileDestinationMap(st, svc, desired, currentMap, fail, rev) ==
    PruneAfter(UpsertDestinations(st, svc, desired, 1, currentMap, fail), svc, desired,
               currentMap, fail, rev)

reconcileDestinations(st, svc, desired, current, fail, rev) ==
    ReconcileDestinationMap(st, svc, desired, DestinationMap(current), fail, rev)

(***************************************************************************)
(* Reconciler.reconcile and Reconciler.Apply.                              *)
(***************************************************************************)
\* Fault model for C1: a delete loop without the address guard.
BelongsToAnyVIP(svc, managedVIP) == TRUE

\* "Only delete if it belongs to our managed VIP": svc.Address.String() == managedVIP
BelongsToManagedVIP(svc, managedVIP) == IPString(svc.Address) = managedVIP

\* the "Add" branch: create the service, then its destinations
AfterCreateService(s1, state, fail, rev) ==
    IF ~s1.ok THEN s1
    ELSE reconcileDestinations(s1, state.Service, state.Destinations, <<>>, fail, rev).st

AddService(st, state, fail, rev) ==
    AfterCreateService(Invoke(st, Call("CreateService", state.Service, NoDestination), fail),
                       state, fail, rev)

\* the "Update if changed" branch: the scheduler is written into the enumerated record
\* and sent with UpdateService (a failure is logged only); then GetDestinations (a failure
\* skips the service); then the destinations against the enumerated ones
AfterGetDestinations(s2, currentSvc, state, fail, rev) ==
    IF ~s2.ok THEN s2
    ELSE reconcileDestinations(s2, currentSvc, state.Destinations,
                               GetDestinations(s2.kernel, currentSvc), fail, rev).st

UpdateScheduler(st, current, currentSvc, fail) ==
    IF current.Scheduler # currentSvc.Scheduler
    THEN Invoke(st, Call("UpdateService", currentSvc, NoDestination), fail)
    ELSE st

UpdateWithRecord(st, state, current, currentSvc, fail, rev) ==
    AfterGetDestinations(Invoke(UpdateScheduler(st, current, currentSvc, fail),
                                Call("GetDestinations", currentSvc, NoDestination), fail),
                         currentSvc, state, fail, rev)

UpdateExisting(st, state, current, fail, rev) ==
    UpdateWithRecord(st, state, current, [current EXCEPT !.Scheduler = state.Service.Scheduler],
                   fail, rev)

\* Fault model for C30: an "Add/Update" loop that gives up at the first failed call.
RECURSIVE AbortOnFailure(_, _, _, _, _, _)
AbortOnFailure(st, desired, keys, currentMap, fail, rev) ==
    IF keys = <<>> \/ st.failed # {} THEN st
    ELSE AbortOnFailure(IF Head(keys) \notin DOMAIN currentMap
                        THEN AddService(st, desired[Head(keys)], fail, rev)
                        ELSE UpdateExisting(st, desired[Head(keys)], currentMap[Head(keys)],
                                            fail, rev),
                        desired, Tail(keys), currentMap, fail, rev)

\* the "Add/Update" loop over the desired map
RECURSIVE ReconcileDesired(_, _, _, _, _, _)
ReconcileDesired(st, desired, keys, currentMap, fail, rev) ==
    IF keys = <<>> THEN st
    ELSE ReconcileDesired(IF Head(keys) \notin DOMAIN currentMap
                          THEN AddService(st, desired[Head(keys)], fail, rev)
                          ELSE UpdateExisting(st, desired[Head(keys)], currentMap[Head(keys)],
                                              fail, rev),
                          desired, Tail(keys), currentMap, fail, rev)

\* the "Delete" loop over the current map
RECURSIVE DeleteObsolete(_, _, _, _, _, _)
DeleteObsolete(st, desired, keys, currentMap, managedVIP, fail) ==
    IF keys = <<>> THEN st
    ELSE DeleteObsolete(IF /\ BelongsToManagedVIP(currentMap[Head(keys)], managedVIP)
                           /\ Head(keys) \notin DOMAIN desired
                        THEN Invoke(st, Call("DeleteService", currentMap[Head(keys)], NoDestination),
                                    fail)
                        ELSE st,
                        desired, Tail(keys), currentMap, managedVIP, fail)

\* what Apply hands back: the tables, the calls made, those that failed, the error
Returned(st, err) == [kernel |-> st.kernel, calls |-> st.calls, failed |-> st.failed, err |-> err]

\* "Build map of current services"
ServiceMap(current) ==
    [key \in {ServiceKey(s) : s \in current} |-> CHOOSE s \in current : ServiceKey(s) = key]

\* Fault model for C29: the "Delete" loop run before the "Add/Update" loop.
DeleteBeforeUpdate(st, desired, currentMap, managedVIP, fail, rev) ==
    ReconcileDesired(DeleteObsolete(st, desired, RangeServiceKeys(DOMAIN currentMap, rev),
                                    currentMap, managedVIP, fail),
                     desired, RangeServiceKeys(DOMAIN desired, rev), currentMap, fail, rev)

\* both loops of reconcile over the map of the enumerated services
ReconcileServiceMap(st, desired, currentMap, managedVIP, fail, rev) ==
    DeleteObsolete(ReconcileDesired(st, desired, RangeServiceKeys(DOMAIN desired, rev),
                                    currentMap, fail, rev),
                   desired, RangeServiceKeys(DOMAIN currentMap, rev), currentMap, managedVIP, fail)

\* reconcile logs every failure and returns nil
reconcile(st, desired, current, managedVIP, fail, rev) ==
    Returned(ReconcileServiceMap(st, desired, ServiceMap(current), managedVIP, fail, rev), FALSE)

\* Apply after its GetServices call: "return err", or reconcile
AfterGetServices(s1, k, desired, vip, fail, rev) ==
    IF ~s1.ok THEN Returned(s1, TRUE)
    ELSE reconcile(s1, expandConfig(desired, vip), GetServices(k), vip, fail, rev)

\* Apply(desired, vip) on tables k: the tables after it, the Manager calls it made in
\* order, the calls that failed, and whether it returned an error.
Apply(k, desired, vip, fail, rev) ==
    IF ParseIP(vip) = NilIP
    THEN [kernel |-> k, calls |-> <<>>, failed |-> {}, err |-> TRUE]
    ELSE AfterGetServices(Invoke([kernel |-> k, calls |-> <<>>, failed |-> {}, ok |-> TRUE],
                                 Call("GetServices", NoService, NoDestination), fail),
                          k, desired, vip, fail, rev)

(***************************************************************************)
(* Inputs: configurations that pass config.Validate, and starting tables.  *)
(***************************************************************************)
ManagedVIP == "192.0.2.10"
MappedVIP  == "::ffff:192.0.2.10"
ForeignVIP == "198.51.100.7"

NoHealth == [Enabled |-> FALSE, FailAfter |-> 1, RecoverAfter |-> 1]

Backend(address, port, weight) == [Address |-> address, Port |-> port, Weight |-> weight]

ConfigService(name, proto, ports, ranges, sched, backends, health) ==
    [Name |-> name, Protocol |-> proto, Ports |-> ports, PortRanges |-> ranges,
     Scheduler |-> sched, Backends |-> backends, Health |-> health]

Config(vip, services) == [VIP |-> vip, Services |-> services]
NoConfig == Config("", <<>>)

\* validateServices: what the model's configurations must satisfy to be loaded
ValidService(svc) ==
    /\ svc.Name # ""
    /\ svc.Protocol \in {"tcp", "udp", "TCP", "UDP"}
    /\ svc.Scheduler \in {"rr", "wrr", "sh"}
    /\ Len(svc.Ports) + Len(svc.PortRanges) > 0
    /\ \A i \in 1..Len(svc.Ports) : svc.Ports[i] >= 1 /\ svc.Ports[i] <= 65535
    /\ \A i \in 1..Len(svc.PortRanges) :
          /\ svc.PortRanges[i].Start >= 1 /\ svc.PortRanges[i].End <= 65535
          /\ svc.PortRanges[i].Start <= svc.PortRanges[i].End
    /\ \A j \in 1..Len(svc.Backends) :
          /\ ParseIP(svc.Backends[j].Address) # NilIP
          /\ svc.Backends[j].Weight >= 1
          /\ svc.Backends[j].Port >= 0 /\ svc.Backends[j].Port <= 65535
    /\ svc.Health.Enabled => svc.Health.FailAfter >= 1 /\ svc.Health.RecoverAfter >= 1

\* config.Validate: the VIP parses, service names are unique, every service is valid
Validate(c) ==
    /\ c.VIP # "" /\ ParseIP(c.VIP) # NilIP
    /\ \A i, j \in 1..Len(c.Services) : c.Services[i].Name = c.Services[j].Name => i = j
    /\ \A i \in 1..Len(c.Services) : ValidService(c.Services[i])

PortChoices ==
    { [Ports |-> <<80>>, PortRanges |-> <<>>],
      [Ports |-> <<81>>, PortRanges |-> <<>>],
      [Ports |-> <<>>,   PortRanges |-> <<[Start |-> 80, End |-> 81]>>],
      [Ports |-> <<81>>, PortRanges |-> <<[Start |-> 80, End |-> 81]>>] }

BackendChoices ==
    { <<>>,
      <<Backend("10.0.0.1", 0, 1)>>,
      <<Backend("10.0.0.2", 80, 1)>>,
      <<Backend("10.0.0.1", 0, 1), Backend("10.0.0.2", 0, 2)>>,
      <<Backend("10.0.0.1", 0, 1), Backend("10.0.0.1", 0, 2)>> }

DirectServices ==
    { ConfigService("web", "tcp", p.Ports, p.PortRanges, sched, b, NoHealth) :
        p \in PortChoices, sched \in {"rr", "wrr"}, b \in BackendChoices }

\* the desired lists handed to Apply directly: none, one service, or two that share a key
DirectDesired ==
    {<<>>} \cup {<<s>> : s \in DirectServices}
    \cup { <<ConfigService("web", "tcp", <<80>>, <<>>, "rr", <<Backend("10.0.0.1", 0, 1)>>, NoHealth),
             ConfigService("dns", p, <<80>>, <<>>, "wrr", <<Backend("10.0.0.2", 0, 1)>>, NoHealth)>> :
           p \in {"tcp", "UDP"} }

\* every list with the VIP in canonical text; the lists of one scheduler with the VIP in mapped text
DirectInputs ==
    {c \in {Config(ManagedVIP, d) : d \in DirectDesired}
            \cup {Config(MappedVIP, d) : d \in {x \in DirectDesired : \A i \in 1..Len(x) : x[i].Scheduler # "wrr"}} :
        Validate(c)}

KernelService(address, proto, port, sched) ==
    [Address |-> ParseIP(address), Protocol |-> proto, Port |-> port, Scheduler |-> sched]
KernelDestination(address, port, weight) ==
    [Address |-> ParseIP(address), Port |-> port, Weight |-> weight]
KernelEntry(svc, dests) == [svc |-> svc, dests |-> dests]

\* the tables holding a set of entries (one per service key)
MakeKernel(entries) ==
    [Services |-> [key \in {ServiceKey(e.svc) : e \in entries} |->
                      (CHOOSE e \in entries : ServiceKey(e.svc) = key).svc],
     Destinations |-> [key \in {ServiceKey(e.svc) : e \in {x \in entries : x.dests # <<>>}} |->
                      (CHOOSE e \in entries : ServiceKey(e.svc) = key).dests]]

StartPort80 ==
    { {},
      {KernelEntry(KernelService(ManagedVIP, "tcp", 80, "rr"), <<>>)},
      {KernelEntry(KernelService(ManagedVIP, "tcp", 80, "rr"), <<KernelDestination("10.0.0.1", 80, 1)>>)},
      {KernelEntry(KernelService(ManagedVIP, "tcp", 80, "wrr"),
                   <<KernelDestination("10.0.0.1", 80, 2), KernelDestination("10.0.0.2", 80, 1)>>)} }

StartPort81 ==
    { {}, {KernelEntry(KernelService(ManagedVIP, "tcp", 81, "wrr"), <<KernelDestination("10.0.0.2", 81, 1)>>)} }

StartForeign ==
    { {}, {KernelEntry(KernelService(ForeignVIP, "tcp", 80, "rr"), <<KernelDestination("10.0.0.1", 80, 1)>>)} }

StartKernels == {MakeKernel(a \cup b \cup c) : a \in StartPort80, b \in StartPort81, c \in StartForeign}

(***************************************************************************)
(* Bounds.                                                                 *)
(***************************************************************************)
MaxApplies  == 2    \* Apply calls made on one input in the reconciler specification
MaxFailures == 1    \* Manager calls that fail in one behaviour

Range(s) == {s[i] : i \in 1..Len(s)}

\* which Manager calls may fail in one pass: at most budget of those the pass makes
FailureChoices(k, desired, vip, rev, budget) ==
    {f \in SUBSET Range(Apply(k, desired, vip, {}, rev).calls) : Cardinality(f) <= budget}

NoApply ==
    [path |-> "none", desired |-> <<>>, vip |-> "", calls |-> <<>>, failed |-> {},
     err |-> FALSE, before |-> EmptyKernel, after |-> EmptyKernel, repeats |-> FALSE,
     failures |-> 0]

\* The record of an Apply invocation.  repeats: the invocation before it had the same
\* inputs, every Manager call of it succeeded, and the tables were not touched since.
ApplyRecord(prev, path, desired, vip, before, result) ==
    [path |-> path, desired |-> desired, vip |-> vip, calls |-> result.calls,
     failed |-> result.failed, err |-> result.err, before |-> before, after |-> result.kernel,
     repeats |-> /\ prev.path # "none" /\ prev.desired = desired /\ prev.vip = vip
                 /\ prev.failed = {} /\ ~prev.err /\ prev.after = before,
     failures |-> prev.failures + Cardinality(result.failed)]

\* Bookkeeping for the properties: Apply calls made, events the environment produced
\* (reload signals, probes, failed Manager calls), whether the VIP was ever released,
\* schedulers created, the scheduler that belongs to the current snapshot, which
\* scheduler's prober wrote each entry of the weight map, and the state and weight changes
\* that the probes of a scheduler run on its own have produced.
NoHistory ==
    [applies |-> 0, events |-> 0, released |-> FALSE,
     gen |-> 0, snapshotGen |-> 0, publisher |-> EmptyMap,
     produced |-> [states |-> <<>>, weights |-> <<>>],
     writes |-> 0, floor |-> 0, stored |-> EmptyMap]

\* the engine goroutine's local variables
NoLocal ==
    [cfg |-> NoConfig, desired |-> <<>>, attempts |-> 0, passes |-> 0, isStartup |-> FALSE,
     stopping |-> <<>>]

EngineIdleVars == <<cfgHash, active, pendingReconcile, pendingDisable, backendWeights, scheduler,
                    reconcileAttempts, retryWait, reconcileReqCh, reloadCh, pc, local, runners,
                    emitted>>

(***************************************************************************)
(* The components in the state their constructors leave them in.           *)
(***************************************************************************)
\* recordingObserver: the StateChange and WeightChange callbacks received, in order
NoObserver == [states |-> <<>>, weights |-> <<>>]

\* Go slices as the cache sees them: nil, or the elements (a set of services, a list of
\* destinations)
Nil == [nil |-> TRUE, elems |-> {}]
Slice(elems) == [nil |-> FALSE, elems |-> elems]
ZeroTime == 0 - 1000000     \* time.Time{}: further back than any TTL

\* sync.RWMutex: the goroutines holding the read lock, and the one holding the write lock
Unlocked == [readers |-> {}, writer |-> {}]   \* sync.RWMutex: the holders of each side

\* NewCachedManager(inner, cfg); inner names the Manager implementation behind the cache
NewCachedManager(inner, enabled, ttl) ==
    [inner |-> inner, enabled |-> enabled, ttl |-> ttl,
     services |-> Nil, destCache |-> EmptyMap, fetchedAt |-> ZeroTime,
     destFetchedAt |-> EmptyMap, hits |-> 0, misses |-> 0, mu |-> Unlocked]

\* ContextWithSignals before it is called: no signal relayed, the context live
NoSignals == [sigCh |-> <<>>, ctx |-> "live", notify |-> FALSE, handler |-> "none",
              closed |-> FALSE, terminate |-> FALSE]

\* a Scheduler nobody has called Stop on
NoStop == [stopped |-> FALSE, callers |-> EmptyMap]

ComponentsIdle ==
    /\ signals = NoSignals /\ stop = NoStop
    /\ observer = NoObserver
    /\ cache = NewCachedManager("MockManager", FALSE, 0)
    /\ clock = 0
    /\ goroutines = EmptyMap

(***************************************************************************)
(* ReconcilerSpec: Reconciler.Apply called directly, repeatedly, on one    *)
(* input (desired list, VIP) from some starting tables.                    *)
(***************************************************************************)
ReconcilerInit ==
    /\ kernel \in StartKernels
    /\ cfg \in DirectInputs
    /\ lastApply = NoApply
    /\ cfgHash = "" /\ active = FALSE /\ pendingReconcile = FALSE /\ pendingDisable = FALSE
    /\ backendWeights = EmptyMap /\ scheduler = 0 /\ reconcileAttempts = 0 /\ retryWait = -1
    /\ reconcileReqCh = 0 /\ reloadCh = 0 /\ pc = "direct" /\ local = NoLocal
    /\ runners = EmptyMap /\ emitted = <<>> /\ hist = NoHistory
    /\ ComponentsIdle

DirectApply ==
    /\ pc = "direct"
    /\ hist.applies < MaxApplies
    /\ \E rev \in BOOLEAN :
         \E fail \in FailureChoices(kernel, cfg.Services, cfg.VIP, rev,
                                        MaxFailures - lastApply.failures) :
            /\ lastApply' = ApplyRecord(lastApply, "direct", cfg.Services, cfg.VIP, kernel,
                                        Apply(kernel, cfg.Services, cfg.VIP, fail, rev))
            /\ kernel' = lastApply'.after
    /\ hist' = [hist EXCEPT !.applies = @ + 1]
    /\ UNCHANGED cfg
    /\ UNCHANGED EngineIdleVars
    /\ UNCHANGED ComponentVars

ReconcilerNext == DirectApply

ReconcilerSpec == ReconcilerInit /\ [][ReconcilerNext]_vars

(***************************************************************************)
(* Claims about Reconciler.Apply (checked under ReconcilerSpec).           *)
(***************************************************************************)
Applied == lastApply.path # "none"
AppliedCleanly == Applied /\ lastApply.failed = {} /\ ~lastApply.err
MutationCalls(calls) == {i \in 1..Len(calls) : calls[i].kind \in MutationKinds}

\* the services (and their destinations) of the tables that are not at the address vip
ForeignTables(k, vip) ==
    [Services |-> [key \in {x \in DOMAIN k.Services : k.Services[x].Address # ParseIP(vip)} |->
                      k.Services[key]],
     Destinations |-> [key \in {x \in DOMAIN k.Destinations : x.address # IPString(ParseIP(vip))} |->
                      k.Destinations[key]]]

\* C1 (tenancy): every create, update or delete call of an Apply, for a service or for a
\* destination, names a service whose address is the managed VIP, and the services at
\* other addresses, with their destinations, are the same after the Apply as before it.
C1_Tenancy ==
    Applied =>
        /\ \A i \in MutationCalls(lastApply.calls) :
              lastApply.calls[i].svc.Address = ParseIP(lastApply.vip)
        /\ ForeignTables(lastApply.after, lastApply.vip) = ForeignTables(lastApply.before, lastApply.vip)

\* C1 witness: an Apply that deleted a managed service while a foreign service on the same
\* protocol and port was in the tables.
C1_Witness ==
    /\ Applied
    /\ \E i \in MutationCalls(lastApply.calls) : lastApply.calls[i].kind = "DeleteService"
    /\ \E key \in DOMAIN lastApply.before.Services :
          key.address = ForeignVIP /\ key \notin DOMAIN expandConfig(lastApply.desired, lastApply.vip)

DestinationPairs(dests) == {<<DestinationKey(dests[i]), dests[i].Weight>> : i \in 1..Len(dests)}

\* the tables hold exactly the expansion of desired at the address vip
Converged(k, desired, vip) ==
    LET expansion == expandConfig(desired, vip)
    IN /\ {key \in DOMAIN k.Services : k.Services[key].Address = ParseIP(vip)} = DOMAIN expansion
       /\ \A key \in DOMAIN expansion :
             /\ key \in DOMAIN k.Services
             /\ k.Services[key].Scheduler = expansion[key].Service.Scheduler
             /\ Len(GetDestinations(k, expansion[key].Service)) = Len(expansion[key].Destinations)
             /\ DestinationPairs(GetDestinations(k, expansion[key].Service))
                   = DestinationPairs(expansion[key].Destinations)

\* C2 (convergence): after an Apply in which every Manager call succeeded, the services at
\* the VIP are exactly the keys of the expansion, each with the desired scheduler and with
\* exactly the desired destinations (one per backend) at the desired weights.
C2_Convergence == AppliedCleanly => Converged(lastApply.after, lastApply.desired, lastApply.vip)

\* C3 (idempotence): an Apply on the tables a fully successful Apply with the same desired
\* list and VIP left behind makes no create, update or delete call.
C3_Idempotence == (Applied /\ lastApply.repeats) => MutationCalls(lastApply.calls) = {}

(***************************************************************************)
(* The health scheduler (health.Scheduler and its runners).                *)
(***************************************************************************)
Health(failAfter, recoverAfter) ==
    [Enabled |-> TRUE, FailAfter |-> failAfter, RecoverAfter |-> recoverAfter]

BackendKey(service, backend) == [Service |-> service, Backend |-> backend]

\* healthTargets: one target per backend of every service with health checks enabled
BackendTargets(svc) ==
    [j \in 1..Len(svc.Backends) |->
        [Key |-> BackendKey(svc.Name, svc.Backends[j].Address),
         FailAfter |-> svc.Health.FailAfter, RecoverAfter |-> svc.Health.RecoverAfter,
         ConfiguredWeight |-> svc.Backends[j].Weight]]

RECURSIVE healthTargets(_)
healthTargets(services) ==
    IF services = <<>> THEN <<>>
    ELSE (IF Head(services).Health.Enabled THEN BackendTargets(Head(services)) ELSE <<>>)
         \o healthTargets(Tail(services))

validateTarget(t) ==
    /\ t.Key.Service # ""
    /\ t.Key.Backend # ""
    /\ t.FailAfter >= 1
    /\ t.RecoverAfter >= 1

RunnerId(sched, key) == [sched |-> sched, key |-> key]

\* a runner as Scheduler.Start creates it; pc is its position: "select" in run's loop,
\* "weight_cb" about to call OnWeightChange, "post" inside it after the locked section
NewRunner(t) ==
    [target |-> t, state |-> "UNKNOWN", consecutiveSuccesses |-> 0, consecutiveFailures |-> 0,
     effectiveWeight |-> -1, stopCh |-> "open", pc |-> "select"]

\* Scheduler.Start: runners are started target by target; an invalid or duplicate target
\* returns the error and leaves the runners started before it running
RECURSIVE SchedulerStart(_, _, _)
SchedulerStart(rs, sched, targets) ==
    IF targets = <<>> THEN [runners |-> rs, err |-> FALSE]
    ELSE LET t == Head(targets)
             id == RunnerId(sched, t.Key)
         IN IF ~validateTarget(t) \/ id \in DOMAIN rs
            THEN [runners |-> rs, err |-> TRUE]
            ELSE SchedulerStart(MapPut(rs, id, NewRunner(t)), sched, Tail(targets))

\* Fault model for C11: a prober without thresholds, following the last probe alone.
tickLastProbe(r, success) ==
    [runner |-> [r EXCEPT !.state = IF success THEN "HEALTHY" ELSE "UNHEALTHY",
                          !.consecutiveSuccesses = IF success THEN @ + 1 ELSE 0,
                          !.consecutiveFailures = IF success THEN 0 ELSE @ + 1,
                          !.effectiveWeight = IF success THEN r.target.ConfiguredWeight ELSE 0],
     stateChanged |-> r.state # (IF success THEN "HEALTHY" ELSE "UNHEALTHY"),
     weightChanged |-> r.effectiveWeight # (IF success THEN r.target.ConfiguredWeight ELSE 0)]

\* Scheduler.tick: the runner after a probe with the given outcome, and what changed
tick(r, success) ==
    LET successes == IF success THEN r.consecutiveSuccesses + 1 ELSE 0
        failures == IF success THEN 0 ELSE r.consecutiveFailures + 1
        state ==
            IF success
            THEN CASE r.state = "UNKNOWN" -> "HEALTHY"
                   [] r.state = "UNHEALTHY" /\ successes >= r.target.RecoverAfter -> "HEALTHY"
                   [] OTHER -> r.state
            ELSE CASE r.state = "UNKNOWN" -> "UNHEALTHY"
                   [] r.state = "HEALTHY" /\ failures >= r.target.FailAfter -> "UNHEALTHY"
                   [] OTHER -> r.state
        weight ==
            IF state = "HEALTHY" THEN r.target.ConfiguredWeight
            ELSE IF state = "UNHEALTHY" THEN 0 ELSE r.effectiveWeight
    IN [runner |-> [r EXCEPT !.state = state, !.consecutiveSuccesses = successes,
                             !.consecutiveFailures = failures, !.effectiveWeight = weight],
        stateChanged |-> r.state # state,
        weightChanged |-> r.effectiveWeight # weight]

(***************************************************************************)
(* The daemon engine.                                                      *)
(***************************************************************************)
\* applyEffectiveWeights: the configured services with every backend that has a
\* non-negative entry in the weight map carrying that weight
applyEffectiveWeights(services, weights) ==
    [i \in 1..Len(services) |->
        [services[i] EXCEPT !.Backends =
            [j \in 1..Len(services[i].Backends) |->
                LET be == services[i].Backends[j]
                    key == BackendKey(services[i].Name, be.Address)
                IN IF key \in DOMAIN weights /\ weights[key] >= 0
                   THEN [be EXCEPT !.Weight = weights[key]]
                   ELSE be]]]

\* hashConfig: SHA-256 of the JSON of the configuration; equal exactly for equal content
hashConfig(c) == <<"sha256", c.VIP, c.Services>>

\* Fault model for C14: a retry that never waits.
NoBackoff(attempt, nano) == 0

\* calculateBackoff, in milliseconds; nano is the clock reading the jitter is taken from
calculateBackoff(attempt, nano) ==
    IF attempt <= 1 THEN 0
    ELSE IF attempt = 2 THEN 5000 + (nano % 1000)
    ELSE 10000 + (nano % 2000)

\* Fault model for C5: a level-triggered tick, acquiring whenever the VIP is present.
AcquiredWhenPresent(present, wasActive) == present

\* the switch of onVIPTick
Acquired(present, wasActive) == present /\ ~wasActive
Released(present, wasActive) == ~present /\ wasActive

\* Fault model for C37: an acquire that leaves pending-disable as it was.
KeepPendingDisable(pending) == pending

\* onVIPAcquired's locked section: "e.pendingDisable = false"
DisableFlagOnAcquire(pending) == FALSE

\* Fault model for C4: a reconcile gate that does not look at the active flag.
ReconcileWhenPending(c, isActive, pending) == c # NoConfig /\ pending

\* Fault model for C32: a disable gate that waits for the reconcile retry deadline.
DisableAfterBackoff(c, isActive, pending) == c # NoConfig /\ ~isActive /\ pending /\ retryWait < 0

\* the gates of tryReconcile and tryDisable ("if cfg == nil || ..." return)
ShouldReconcile(c, isActive, pending) == c # NoConfig /\ isActive /\ pending
ShouldDisable(c, isActive, pending) == c # NoConfig /\ ~isActive /\ pending

\* Fault model for C9: a reload that installs whatever the loader returned.
LoaderFails(file) == file.err

\* loadAndSetConfig returns an error: the loader failed or the validator rejected the file
loadAndSetConfigFails(file) == file.err \/ ~Validate(file.cfg)

Count(e, events) == Cardinality({i \in 1..Len(events) : events[i] = e})

(***************************************************************************)
(* Spec: the engine's Run loop, the reload signal and the probers.         *)
(***************************************************************************)
MaxEvents == 3      \* reload signals, probes and failed Manager calls in one behaviour
TickIntervalMS == 1000

WebService(health) ==
    ConfigService("web", "tcp", <<80>>, <<>>, "rr", <<Backend("10.0.0.1", 0, 2)>>, health)

CfgHealth  == Config(ManagedVIP, <<WebService(Health(1, 1))>>)
CfgPlain   == Config(ManagedVIP, <<WebService(NoHealth)>>)
CfgInvalid == Config(ManagedVIP, <<ConfigService("web", "tcp", <<80>>, <<>>, "bogus", <<>>, NoHealth)>>)

\* what the loader may return: an error, or the content of the file
File(err, c) == [err |-> err, cfg |-> c]
Files == {File(FALSE, CfgHealth), File(FALSE, CfgPlain), File(FALSE, CfgInvalid), File(TRUE, NoConfig)}

\* the file at startup: the loader fails, or it holds the configuration with health checks
StartupFiles == {File(TRUE, NoConfig), File(FALSE, CfgHealth)}

\* the tables the daemon finds: a service of another tenant and a leftover at the VIP
EngineStartKernels ==
    { MakeKernel({KernelEntry(KernelService(ForeignVIP, "tcp", 80, "rr"), <<KernelDestination("10.0.0.1", 80, 1)>>),
                  KernelEntry(KernelService(ManagedVIP, "tcp", 81, "wrr"), <<KernelDestination("10.0.0.2", 81, 1)>>)}) }

VIPOutcomes == {"present", "absent", "error"}   \* CheckVIPPresent: (true, nil), (false, nil), (_, err)
JitterSamples == {0, 1999}                      \* clock readings the jitter is taken from

\* the time left of the backoff after one tick interval; -1 once the retry time has passed
Elapse(wait) == IF wait - TickIntervalMS < 0 THEN -1 ELSE wait - TickIntervalMS

\* nextReconcileRetry = time.Now().Add(backoff), as the time left: a retry time equal to
\* the clock reading it was computed from has passed by the next reading
Deadline(backoff) == IF backoff = 0 THEN -1 ELSE backoff

\* every order in which a set can be enumerated
Orders(S) == {seq \in [1..Cardinality(S) -> S] : \A i, j \in 1..Cardinality(S) : seq[i] = seq[j] => i = j}

Init ==
    /\ kernel \in EngineStartKernels
    /\ lastApply = NoApply
    /\ cfg = NoConfig /\ cfgHash = ""
    /\ active = FALSE /\ pendingReconcile = FALSE /\ pendingDisable = FALSE
    /\ backendWeights = EmptyMap /\ scheduler = 0 /\ reconcileAttempts = 0 /\ retryWait = -1
    /\ reconcileReqCh = 0 /\ reloadCh = 0 /\ pc = "load" /\ local = NoLocal
    /\ runners = EmptyMap /\ emitted = <<>> /\ hist = NoHistory
    /\ ComponentsIdle

\* loadAndSetConfig past its error returns: the locked section and the audit events
SetConfig(file) ==
    /\ cfg' = file.cfg
    /\ cfgHash' = hashConfig(file.cfg)
    /\ backendWeights' = EmptyMap
    /\ emitted' = <<"config_loaded">> \o
                  (IF cfgHash # "" /\ cfgHash # hashConfig(file.cfg) THEN <<"config_changed">> ELSE <<>>)

\* Run, first statement: loadAndSetConfig(true); an error ends Run
Startup ==
    /\ pc = "load"
    /\ \E file \in StartupFiles :
         IF loadAndSetConfigFails(file)
         THEN /\ pc' = "exited"
              /\ emitted' = <<>>
              /\ UNCHANGED <<cfg, cfgHash, backendWeights, local, hist>>
         ELSE /\ SetConfig(file)
              /\ pc' = "start_sched"
              /\ local' = [local EXCEPT !.isStartup = TRUE]
              /\ hist' = [hist EXCEPT !.snapshotGen = hist.gen + 1, !.publisher = EmptyMap]
    /\ UNCHANGED <<kernel, lastApply, active, pendingReconcile, pendingDisable, scheduler,
                   reconcileAttempts, retryWait, reconcileReqCh, reloadCh, runners>>
    /\ UNCHANGED ComponentVars

\* startHealthScheduler (its leading stopHealthScheduler finds no scheduler: Run has none
\* yet and onReload has just stopped it)
StartScheduler ==
    /\ pc = "start_sched"
    /\ scheduler = 0
    /\ LET targets == healthTargets(cfg.Services)
           started == SchedulerStart(runners, hist.gen + 1, targets)
           failed == targets # <<>> /\ started.err
       IN /\ IF targets = <<>>
             THEN UNCHANGED <<runners, scheduler, hist>>
             ELSE /\ runners' = started.runners
                  /\ scheduler' = IF started.err THEN 0 ELSE hist.gen + 1
                  /\ hist' = [hist EXCEPT !.gen = @ + 1]
          /\ pc' = IF ~local.isStartup THEN "reload_flags" ELSE IF failed THEN "exited" ELSE "sync"
    /\ emitted' = <<>>
    /\ UNCHANGED <<kernel, lastApply, cfg, cfgHash, active, pendingReconcile, pendingDisable,
                   backendWeights, reconcileAttempts, retryWait, reconcileReqCh, reloadCh, local>>
    /\ UNCHANGED ComponentVars

\* initialVIPSync up to its call of tryReconcile
InitialVIPSync ==
    /\ pc = "sync"
    /\ \E outcome \in VIPOutcomes :
         /\ local' = NoLocal
         /\ IF outcome = "error"
            THEN /\ pc' = "idle"
                 /\ UNCHANGED <<active, pendingReconcile, pendingDisable>>
            ELSE /\ active' = (outcome = "present")
                 /\ pendingReconcile' = (outcome = "present")
                 /\ pendingDisable' = FALSE
                 /\ pc' = IF outcome = "present" THEN "rec_snap" ELSE "idle"
    /\ emitted' = <<>>
    /\ UNCHANGED <<kernel, lastApply, cfg, cfgHash, backendWeights, scheduler, reconcileAttempts,
                   retryWait, reconcileReqCh, reloadCh, runners, hist>>
    /\ UNCHANGED ComponentVars

\* Fault model for C28: a loop that takes the next wakeup while an Apply is in flight.
SelectDuringApply(at) == at \in {"idle", "rec_apply", "dis_apply"}

\* Run's loop: the select is reached again only when the handler it called has returned
InSelect(at) == at = "idle"

\* Fault model for C38: a tick that takes a failed query for an absent VIP.
ErrorMeansAbsent(outcome) == FALSE

\* onVIPTick: "present, err := CheckVIPPresent(...); if err != nil { Warn; return }"
QueryFailed(outcome) == outcome = "error"

\* Run's "case <-ticker.C()": onVIPTick up to its final call of tryReconcile or tryDisable,
\* with onVIPAcquired and onVIPReleased up to theirs (so two passes follow an edge)
OnVIPTickOutcome(outcome) ==
    /\ InSelect(pc)
    /\ LET present == outcome = "present"
           wasActive == active
       IN CASE QueryFailed(outcome) ->
                 /\ pc' = "idle"
                 /\ emitted' = <<"vip_check_failed">>
                 /\ UNCHANGED local
                 /\ UNCHANGED <<active, pendingReconcile, pendingDisable, hist>>
            [] ~QueryFailed(outcome) /\ Acquired(present, wasActive) ->
                 /\ emitted' = <<"vip_acquired", "transition_acquire">>
                 /\ active' = TRUE
                 /\ pendingDisable' = DisableFlagOnAcquire(pendingDisable)
                 /\ pendingReconcile' = TRUE
                 /\ pc' = "rec_snap"
                 /\ local' = [local EXCEPT !.passes = 1]
                 /\ UNCHANGED hist
            [] ~QueryFailed(outcome) /\ ~Acquired(present, wasActive) /\ Released(present, wasActive) ->
                 /\ emitted' = <<"vip_released", "transition_release">>
                 /\ active' = FALSE
                 /\ pendingReconcile' = FALSE
                 /\ pendingDisable' = TRUE
                 /\ pc' = "dis_snap"
                 /\ local' = [local EXCEPT !.passes = 1]
                 /\ hist' = [hist EXCEPT !.released = TRUE]
            [] OTHER ->
                 /\ emitted' = <<>>
                 /\ pc' = IF present THEN "rec_snap" ELSE "dis_snap"
                 /\ local' = [local EXCEPT !.passes = 0]
                 /\ UNCHANGED <<active, pendingReconcile, pendingDisable, hist>>
    /\ retryWait' = Elapse(retryWait)
    /\ UNCHANGED <<kernel, lastApply, cfg, cfgHash, backendWeights, scheduler, reconcileAttempts,
                   reconcileReqCh, reloadCh, runners>>
    /\ UNCHANGED ComponentVars

OnVIPTick == \E outcome \in VIPOutcomes : OnVIPTickOutcome(outcome)

\* where the engine goes when a tryReconcile or tryDisable call returns: into the second
\* call that follows an edge, or back to Run's select
Return(again) ==
    IF local.passes > 0
    THEN /\ pc' = again
         /\ local' = [local EXCEPT !.passes = @ - 1]
    ELSE /\ pc' = "idle"
         /\ local' = NoLocal

\* tryReconcile, its first locked section and the gate after it
TryReconcile ==
    /\ pc = "rec_snap"
    /\ IF retryWait >= 0 \/ ~ShouldReconcile(cfg, active, pendingReconcile)
       THEN Return("rec_snap")
       ELSE /\ pc' = "rec_apply"
            /\ local' = [local EXCEPT !.cfg = cfg, !.attempts = reconcileAttempts,
                                      !.desired = applyEffectiveWeights(cfg.Services, backendWeights)]
    /\ emitted' = <<>>
    /\ UNCHANGED <<kernel, lastApply, cfg, cfgHash, active, pendingReconcile, pendingDisable,
                   backendWeights, scheduler, reconcileAttempts, retryWait, reconcileReqCh,
                   reloadCh, runners, hist>>
    /\ UNCHANGED ComponentVars

\* tryReconcile from its Apply call to its return
ReconcileApply ==
    /\ pc = "rec_apply"
    /\ \E rev \in BOOLEAN, nano \in JitterSamples :
         \E fail \in FailureChoices(kernel, local.desired, local.cfg.VIP, rev,
                                        MaxEvents - hist.events) :
            /\ lastApply' = ApplyRecord(lastApply, "reconcile", local.desired, local.cfg.VIP,
                                        kernel,
                                        Apply(kernel, local.desired, local.cfg.VIP, fail, rev))
            /\ kernel' = lastApply'.after
            /\ IF lastApply'.err
               THEN /\ pendingReconcile' = TRUE
                    /\ reconcileAttempts' = reconcileAttempts + 1
                    /\ retryWait' = Deadline(calculateBackoff(local.attempts + 1, nano))
                    /\ emitted' = <<"reconcile_failure">>
               ELSE /\ pendingReconcile' = FALSE
                    /\ reconcileAttempts' = 0
                    /\ retryWait' = -1
                    /\ emitted' = <<"reconcile_success">>
    /\ hist' = [hist EXCEPT !.events = @ + Cardinality(lastApply'.failed)]
    /\ Return("rec_snap")
    /\ UNCHANGED <<cfg, cfgHash, active, pendingDisable, backendWeights, scheduler,
                   reconcileReqCh, reloadCh, runners>>
    /\ UNCHANGED ComponentVars

\* tryDisable, its first locked section and the gate after it
TryDisable ==
    /\ pc = "dis_snap"
    /\ IF ~ShouldDisable(cfg, active, pendingDisable)
       THEN Return("dis_snap")
       ELSE /\ pc' = "dis_apply"
            /\ local' = [local EXCEPT !.cfg = cfg, !.desired = <<>>]
    /\ emitted' = <<>>
    /\ UNCHANGED <<kernel, lastApply, cfg, cfgHash, active, pendingReconcile, pendingDisable,
                   backendWeights, scheduler, reconcileAttempts, retryWait, reconcileReqCh,
                   reloadCh, runners, hist>>
    /\ UNCHANGED ComponentVars

\* tryDisable from its Apply call to its return
DisableApply ==
    /\ pc = "dis_apply"
    /\ \E rev \in BOOLEAN :
         \E fail \in FailureChoices(kernel, <<>>, local.cfg.VIP, rev, MaxEvents - hist.events) :
            /\ lastApply' = ApplyRecord(lastApply, "disable", <<>>, local.cfg.VIP, kernel,
                                        Apply(kernel, <<>>, local.cfg.VIP, fail, rev))
            /\ kernel' = lastApply'.after
            /\ pendingDisable' = lastApply'.err
            /\ emitted' = IF lastApply'.err THEN <<"reconcile_failure">> ELSE <<"reconcile_success">>
    /\ hist' = [hist EXCEPT !.events = @ + Cardinality(lastApply'.failed)]
    /\ Return("dis_snap")
    /\ UNCHANGED <<cfg, cfgHash, active, pendingReconcile, backendWeights, scheduler,
                   reconcileAttempts, retryWait, reconcileReqCh, reloadCh, runners>>
    /\ UNCHANGED ComponentVars

\* Run's "case <-e.reconcileReqCh"
OnReconcileRequest ==
    /\ InSelect(pc)
    /\ reconcileReqCh = 1
    /\ reconcileReqCh' = 0
    /\ pc' = "rec_snap"
    /\ local' = [local EXCEPT !.passes = 0]
    /\ emitted' = <<>>
    /\ UNCHANGED <<kernel, lastApply, cfg, cfgHash, active, pendingReconcile, pendingDisable,
                   backendWeights, scheduler, reconcileAttempts, retryWait, reloadCh, runners, hist>>
    /\ UNCHANGED ComponentVars

\* Run's "case <-e.reloadCh" when the loader returns file: onReload through
\* loadAndSetConfig(false); an error is logged and onReload returns
OnReloadFile(file) ==
    /\ InSelect(pc)
    /\ reloadCh = 1
    /\ reloadCh' = 0
    /\ IF loadAndSetConfigFails(file)
       THEN /\ pc' = "idle"
            /\ emitted' = <<"reload_failed">>
            /\ UNCHANGED <<cfg, cfgHash, backendWeights, local, hist>>
       ELSE /\ SetConfig(file)
            /\ pc' = "stop_sched"
            /\ local' = [local EXCEPT !.isStartup = FALSE]
            /\ hist' = [hist EXCEPT !.snapshotGen = hist.gen + 1, !.publisher = EmptyMap]
    /\ UNCHANGED <<kernel, lastApply, active, pendingReconcile, pendingDisable, scheduler,
                   reconcileAttempts, retryWait, reconcileReqCh, runners>>
    /\ UNCHANGED ComponentVars

OnReload == \E file \in Files : OnReloadFile(file)

CloseStopCh(rs, id) == IF id \in DOMAIN rs THEN [rs EXCEPT ![id].stopCh = "closed"] ELSE rs

\* onReload's stopHealthScheduler: take the scheduler out of the engine and enter its Stop,
\* which closes the first runner's stop channel and waits for that runner
StopHealthScheduler ==
    /\ pc = "stop_sched"
    /\ scheduler' = 0
    /\ LET mine == {id \in DOMAIN runners : id.sched = scheduler}
       IN IF scheduler = 0 \/ mine = {}
          THEN /\ pc' = "start_sched"
               /\ UNCHANGED <<runners, local>>
          ELSE \E order \in Orders(mine) :
                  /\ pc' = "stop_wait"
                  /\ local' = [local EXCEPT !.stopping = order]
                  /\ runners' = CloseStopCh(runners, order[1])
    /\ emitted' = <<>>
    /\ UNCHANGED <<kernel, lastApply, cfg, cfgHash, active, pendingReconcile, pendingDisable,
                   backendWeights, reconcileAttempts, retryWait, reconcileReqCh, reloadCh, hist>>
    /\ UNCHANGED ComponentVars

\* Scheduler.Stop: "<-r.doneCh" returns once the runner has left run; then the next runner
AwaitRunner ==
    /\ pc = "stop_wait"
    /\ Head(local.stopping) \notin DOMAIN runners
    /\ local' = [local EXCEPT !.stopping = Tail(@)]
    /\ IF Tail(local.stopping) = <<>>
       THEN /\ pc' = "start_sched"
            /\ UNCHANGED runners
       ELSE /\ pc' = "stop_wait"
            /\ runners' = CloseStopCh(runners, local.stopping[2])
    /\ emitted' = <<>>
    /\ UNCHANGED <<kernel, lastApply, cfg, cfgHash, active, pendingReconcile, pendingDisable,
                   backendWeights, scheduler, reconcileAttempts, retryWait, reconcileReqCh,
                   reloadCh, hist>>
    /\ UNCHANGED ComponentVars

\* Fault model for C15: a reload that leaves the reconcile to the next tick.
SkipAfterReload(isActive) == "idle"

\* onReload: "if active { e.tryReconcile(ctx) }"
AfterReload(isActive) == IF isActive THEN "rec_snap" ELSE "idle"

\* onReload's last locked section, up to its call of tryReconcile
ReloadFlags ==
    /\ pc = "reload_flags"
    /\ pendingReconcile' = TRUE
    /\ pc' = AfterReload(active)
    /\ local' = NoLocal
    /\ emitted' = <<>>
    /\ UNCHANGED <<kernel, lastApply, cfg, cfgHash, active, pendingDisable, backendWeights,
                   scheduler, reconcileAttempts, retryWait, reconcileReqCh, reloadCh, runners, hist>>
    /\ UNCHANGED ComponentVars

\* ContextWithSignals: a SIGHUP is posted to the capacity-1 reload channel, or dropped
\* when one is already waiting there
SendReload ==
    /\ pc \notin {"load", "exited"}
    /\ hist.events < MaxEvents
    /\ reloadCh' = 1
    /\ hist' = [hist EXCEPT !.events = @ + 1]
    /\ emitted' = <<>>
    /\ UNCHANGED <<kernel, lastApply, cfg, cfgHash, active, pendingReconcile, pendingDisable,
                   backendWeights, scheduler, reconcileAttempts, retryWait, reconcileReqCh, pc,
                   local, runners>>
    /\ UNCHANGED ComponentVars

\* Scheduler.run takes a tick: Scheduler.tick through the probe, the runner's locked
\* section and OnStateChange.  A runner whose stop channel is closed may still take the
\* one tick its ticker had delivered before it was stopped.
RunnerTick(id) ==
    /\ runners[id].pc = "select"
    /\ runners[id].stopCh # "drained"
    /\ hist.events < MaxEvents
    /\ \E success \in BOOLEAN :
         LET t == tick(runners[id], success)
         IN /\ runners' = [runners EXCEPT ![id] =
                  [t.runner EXCEPT !.pc = IF t.weightChanged THEN "weight_cb" ELSE "select",
                                   !.stopCh = IF @ = "closed" THEN "drained" ELSE @]]
            /\ emitted' = IF t.stateChanged /\ cfg # NoConfig THEN <<"health_state_changed">> ELSE <<>>
    /\ hist' = [hist EXCEPT !.events = @ + 1]
    /\ UNCHANGED <<kernel, lastApply, cfg, cfgHash, active, pendingReconcile, pendingDisable,
                   backendWeights, scheduler, reconcileAttempts, retryWait, reconcileReqCh,
                   reloadCh, pc, local>>
    /\ UNCHANGED ComponentVars

\* Engine.OnWeightChange, its locked section and the audit event
RunnerPublish(id) ==
    /\ runners[id].pc = "weight_cb"
    /\ IF cfg = NoConfig
       THEN /\ runners' = [runners EXCEPT ![id].pc = "select"]
            /\ emitted' = <<>>
            /\ UNCHANGED <<backendWeights, pendingReconcile, hist>>
       ELSE /\ backendWeights' = MapPut(backendWeights, id.key, runners[id].effectiveWeight)
            /\ pendingReconcile' = TRUE
            /\ runners' = [runners EXCEPT ![id].pc = IF active THEN "post" ELSE "select"]
            /\ emitted' = <<"backend_weight_changed">>
            /\ hist' = [hist EXCEPT !.publisher = MapPut(@, id.key, id.sched)]
    /\ UNCHANGED <<kernel, lastApply, cfg, cfgHash, active, pendingDisable, scheduler,
                   reconcileAttempts, retryWait, reconcileReqCh, reloadCh, pc, local>>
    /\ UNCHANGED ComponentVars

\* Fault model for C23: a reconcile request queued behind the one that is waiting.
QueueRequest(ch) == ch + 1

\* requestReconcile: "select { case e.reconcileReqCh <- struct{}{}: default: }" on a
\* channel of capacity 1
requestReconcile(ch) == IF ch < 1 THEN ch + 1 ELSE ch

\* Engine.OnWeightChange, "if active { e.requestReconcile() }": a non-blocking send
RunnerPost(id) ==
    /\ runners[id].pc = "post"
    /\ reconcileReqCh' = requestReconcile(reconcileReqCh)
    /\ runners' = [runners EXCEPT ![id].pc = "select"]
    /\ emitted' = <<>>
    /\ UNCHANGED <<kernel, lastApply, cfg, cfgHash, active, pendingReconcile, pendingDisable,
                   backendWeights, scheduler, reconcileAttempts, retryWait, reloadCh, pc, local,
                   hist>>
    /\ UNCHANGED ComponentVars

\* Scheduler.run takes "case <-r.stopCh" and closes doneCh
RunnerExit(id) ==
    /\ runners[id].pc = "select"
    /\ runners[id].stopCh # "open"
    /\ runners' = MapDel(runners, id)
    /\ emitted' = <<>>
    /\ UNCHANGED <<kernel, lastApply, cfg, cfgHash, active, pendingReconcile, pendingDisable,
                   backendWeights, scheduler, reconcileAttempts, retryWait, reconcileReqCh,
                   reloadCh, pc, local, hist>>
    /\ UNCHANGED ComponentVars

Next ==
    \/ Startup
    \/ StartScheduler
    \/ InitialVIPSync
    \/ OnVIPTick
    \/ TryReconcile
    \/ ReconcileApply
    \/ TryDisable
    \/ DisableApply
    \/ OnReconcileRequest
    \/ OnReload
    \/ StopHealthScheduler
    \/ AwaitRunner
    \/ ReloadFlags
    \/ SendReload
    \/ \E id \in DOMAIN runners : RunnerTick(id)
    \/ \E id \in DOMAIN runners : RunnerPublish(id)
    \/ \E id \in DOMAIN runners : RunnerPost(id)
    \/ \E id \in DOMAIN runners : RunnerExit(id)

Spec == Init /\ [][Next]_vars

(***************************************************************************)
(* Claims about the engine (checked under Spec).                           *)
(***************************************************************************)
\* the services with every backend weight blanked
StripWeights(services) ==
    [i \in 1..Len(services) |->
        [services[i] EXCEPT !.Backends = [j \in 1..Len(services[i].Backends) |->
                                             [services[i].Backends[j] EXCEPT !.Weight = 0]]]]

\* C4 (VIP gating): while the engine is in tryReconcile's Apply call, with the configured
\* services as the desired list, active and pending-reconcile are set; while it is in
\* tryDisable's Apply call, with the empty list, active is false, pending-disable is set
\* and a release has happened (so a standby engine that saw no release never calls Apply).
C4_VIPGating ==
    /\ pc = "rec_apply" =>
          /\ active /\ pendingReconcile
          /\ local.cfg = cfg /\ StripWeights(local.desired) = StripWeights(cfg.Services)
    /\ pc = "dis_apply" =>
          /\ ~active /\ pendingDisable /\ hist.released
          /\ local.cfg = cfg /\ local.desired = <<>>

\* C4 witness: the engine in the disable path's Apply call after a reconcile pass was made.
C4_Witness == pc = "dis_apply" /\ lastApply.path = "reconcile" /\ hist.released

VIPEvents == {"vip_acquired", "transition_acquire", "vip_released", "transition_release"}
One(cond) == IF cond THEN 1 ELSE 0

\* C5 (edge trigger): a tick produces one vip_acquired event and one acquire count exactly
\* when it changes the mode from standby to active, one vip_released event and one release
\* count exactly when it changes the mode from active to standby, and nothing when the
\* presence it observed equals the mode or the query failed; the mode changes exactly when
\* the observed presence differs from it; and no other step produces a VIP event.
C5_EdgeTrigger ==
    [][/\ OnVIPTick =>
            /\ Count("vip_acquired", emitted') = One(~active /\ active')
            /\ Count("transition_acquire", emitted') = One(~active /\ active')
            /\ Count("vip_released", emitted') = One(active /\ ~active')
            /\ Count("transition_release", emitted') = One(active /\ ~active')
            /\ active' = (IF pc' = "rec_snap" THEN TRUE ELSE IF pc' = "dis_snap" THEN FALSE ELSE active)
            /\ (pc' = "idle" \/ (pc' = "rec_snap") = active) =>
                   \A i \in 1..Len(emitted') : emitted'[i] \notin VIPEvents
       /\ ~OnVIPTick => \A i \in 1..Len(emitted') : emitted'[i] \notin VIPEvents]_vars

\* C5 witness: the state after a tick that acquired the VIP again after a release.
C5_Witness ==
    /\ emitted = <<"vip_acquired", "transition_acquire">>
    /\ active /\ hist.released /\ pc = "rec_snap"

\* C6 (standby cleanliness): in standby after a release, once pending-disable is cleared,
\* the last Apply was the disable pass with the empty list and the managed VIP, no service
\* at the managed VIP is left in the tables, and the other services are as before it.
C6_StandbyClean ==
    (hist.released /\ ~active /\ ~pendingDisable) =>
        /\ lastApply.path = "disable" /\ lastApply.desired = <<>> /\ lastApply.vip = cfg.VIP
        /\ \A key \in DOMAIN kernel.Services : kernel.Services[key].Address # ParseIP(cfg.VIP)
        /\ ForeignTables(lastApply.after, cfg.VIP) = ForeignTables(lastApply.before, cfg.VIP)

\* C7 (mutation failure): a reconcile pass in which a create, update or delete call failed
\* leaves pending-reconcile set and adds one to the retry counter.
C7_MutationFailureMarksFailed ==
    [][(/\ pc = "rec_apply" /\ pc' # "rec_apply"
        /\ \E c \in lastApply'.failed : c.kind \in MutationKinds)
       => (pendingReconcile' /\ reconcileAttempts' = reconcileAttempts + 1)]_vars

\* nothing is on its way to the engine: no wakeup queued, no prober inside a callback
Quiescent ==
    /\ pc = "idle" /\ reconcileReqCh = 0 /\ reloadCh = 0
    /\ \A id \in DOMAIN runners : runners[id].pc = "select"

\* C8 (no lost weight change): when the engine is active and waits in its loop with nothing
\* on its way to it, the weights the probers delivered are the ones the last reconcile pass
\* was called with, or pending-reconcile is set so that the next tick calls Apply with them.
C8_NoLostWeightChange ==
    (Quiescent /\ active) =>
        \/ pendingReconcile
        \/ /\ lastApply.path = "reconcile"
           /\ lastApply.desired = applyEffectiveWeights(cfg.Services, backendWeights)

\* C9 (reload safety): a reload whose file the loader fails on or the validator rejects
\* returns to the loop with the snapshot, hash, scheduler, probers, weight map, flags, retry
\* state and tables as they were, without a config_loaded or config_changed event and
\* without an Apply call.
C9_ReloadSafety ==
    [][\A file \in Files :
          (OnReloadFile(file) /\ (file.err \/ ~Validate(file.cfg))) =>
              /\ UNCHANGED <<cfg, cfgHash, scheduler, runners, backendWeights, active,
                             pendingReconcile, pendingDisable, reconcileAttempts, retryWait,
                             kernel, lastApply>>
              /\ Count("config_loaded", emitted') = 0 /\ Count("config_changed", emitted') = 0
              /\ pc' = "idle"]_vars

\* C9 witness: a reload has just failed on an active engine with a running scheduler and a
\* published weight.
C9_Witness ==
    /\ emitted = <<"reload_failed">>
    /\ active /\ scheduler # 0 /\ backendWeights # EmptyMap /\ runners # EmptyMap

\* C10 (weights after reload): outside of startup and reload, every entry of the weight map
\* was written by a prober of the scheduler that belongs to the current snapshot.
C10_WeightsFromCurrentScheduler ==
    pc \in {"idle", "rec_snap", "rec_apply", "dis_snap", "dis_apply"} =>
        \A key \in DOMAIN backendWeights : hist.publisher[key] = hist.snapshotGen


(***************************************************************************)
(* HealthSpec: one health.Scheduler started on a target list, its runners  *)
(* probing concurrently and calling a recording observer.                  *)
(***************************************************************************)
MaxProbes == 5      \* probes performed in one behaviour of the scheduler on its own

Target(backend, failAfter, recoverAfter, weight) ==
    [Key |-> BackendKey("svc", backend), FailAfter |-> failAfter,
     RecoverAfter |-> recoverAfter, ConfiguredWeight |-> weight]

\* the lists handed to Start: one target with every threshold pair and a weight that
\* validateTarget lets through (it does not look at ConfiguredWeight, an int), or two targets
HealthTargetLists ==
    {<<Target("10.0.0.1", f, r, w)>> : f \in {1, 2}, r \in {1, 2}, w \in {-5, 0, 5}}
    \cup {<<Target("10.0.0.1", 2, 2, 5), Target("10.0.0.2", 1, 1, 5)>>}

\* the locals of Scheduler.tick that outlive its locked section
NoChange == [oldState |-> "UNKNOWN", newState |-> "UNKNOWN", oldWeight |-> -1, newWeight |-> -1,
             weightChanged |-> FALSE]

HealthInit ==
    /\ \E targets \in HealthTargetLists :
          /\ runners = SchedulerStart(EmptyMap, 1, targets).runners
          /\ goroutines = [id \in {RunnerId(1, targets[i].Key) : i \in 1..Len(targets)} |-> NoChange]
    /\ scheduler = 1
    /\ observer = NoObserver
    /\ pc = "health" /\ cfg = NoConfig /\ kernel = EmptyKernel /\ lastApply = NoApply
    /\ cfgHash = "" /\ active = FALSE /\ pendingReconcile = FALSE /\ pendingDisable = FALSE
    /\ backendWeights = EmptyMap /\ reconcileAttempts = 0 /\ retryWait = -1
    /\ reconcileReqCh = 0 /\ reloadCh = 0 /\ local = NoLocal
    /\ emitted = <<>> /\ hist = NoHistory
    /\ cache = NewCachedManager("MockManager", FALSE, 0) /\ clock = 0
    /\ signals = NoSignals /\ stop = NoStop

HealthIdleVars == <<kernel, lastApply, cfg, cfgHash, active, pendingReconcile, pendingDisable,
                    backendWeights, scheduler, reconcileAttempts, retryWait, reconcileReqCh,
                    reloadCh, pc, local, cache, clock, signals, stop>>

\* Fault model for C13: a prober that calls the state observer after every probe.
AlwaysNotify(t) == "state_cb"

\* Scheduler.tick after its locked section: which observer call comes next
AfterProbe(t) ==
    IF t.stateChanged THEN "state_cb" ELSE IF t.weightChanged THEN "weight_cb" ELSE "select"

\* the changes a probe produced, appended to the record of changes produced so far
Produced(p, key, r, r2) ==
    [states |-> p.states \o (IF r.state # r2.state
                             THEN <<[Key |-> key, Old |-> r.state, New |-> r2.state]>> ELSE <<>>),
     weights |-> p.weights \o (IF r.effectiveWeight # r2.effectiveWeight
                               THEN <<[Key |-> key, OldWeight |-> r.effectiveWeight,
                                       NewWeight |-> r2.effectiveWeight]>> ELSE <<>>)]

\* Scheduler.run takes a tick: Check, then the locked section of Scheduler.tick
HealthProbe(id) ==
    /\ pc = "health"
    /\ runners[id].pc = "select"
    /\ hist.events < MaxProbes
    /\ \E success \in BOOLEAN :
         /\ runners' = [runners EXCEPT ![id] =
                           [tick(runners[id], success).runner EXCEPT
                               !.pc = AfterProbe(tick(runners[id], success))]]
         /\ goroutines' = [goroutines EXCEPT ![id] =
                [oldState |-> runners[id].state, newState |-> runners'[id].state,
                 oldWeight |-> runners[id].effectiveWeight,
                 newWeight |-> runners'[id].effectiveWeight,
                 weightChanged |-> tick(runners[id], success).weightChanged]]
    /\ hist' = [hist EXCEPT !.events = @ + 1,
                            !.produced = Produced(@, id.key, runners[id], runners'[id])]
    /\ emitted' = <<>>
    /\ UNCHANGED <<observer>>
    /\ UNCHANGED HealthIdleVars

\* Scheduler.tick: "if stateChanged && s.obs != nil { s.obs.OnStateChange(...) }"
HealthStateCallback(id) ==
    /\ pc = "health"
    /\ runners[id].pc = "state_cb"
    /\ observer' = [observer EXCEPT !.states = Append(@,
                        [Key |-> id.key, Old |-> goroutines[id].oldState,
                         New |-> goroutines[id].newState])]
    /\ runners' = [runners EXCEPT ![id].pc =
                        IF goroutines[id].weightChanged THEN "weight_cb" ELSE "select"]
    /\ emitted' = <<"OnStateChange">>
    /\ UNCHANGED <<goroutines, hist>>
    /\ UNCHANGED HealthIdleVars

\* Scheduler.tick: "if weightChanged && s.obs != nil { s.obs.OnWeightChange(...) }"
HealthWeightCallback(id) ==
    /\ pc = "health"
    /\ runners[id].pc = "weight_cb"
    /\ observer' = [observer EXCEPT !.weights = Append(@,
                        [Key |-> id.key, OldWeight |-> goroutines[id].oldWeight,
                         NewWeight |-> goroutines[id].newWeight])]
    /\ runners' = [runners EXCEPT ![id].pc = "select"]
    /\ emitted' = <<"OnWeightChange">>
    /\ UNCHANGED <<goroutines, hist>>
    /\ UNCHANGED HealthIdleVars

HealthNext ==
    \/ \E id \in DOMAIN runners : HealthProbe(id)
    \/ \E id \in DOMAIN runners : HealthStateCallback(id)
    \/ \E id \in DOMAIN runners : HealthWeightCallback(id)

HealthSpec == HealthInit /\ [][HealthNext]_vars


(***************************************************************************)
(* Claims about the health scheduler.                                      *)
(***************************************************************************)
\* the callbacks of one target, in the order the observer received them
OfKey(callbacks, key) == SelectSeq(callbacks, LAMBDA c : c.Key = key)

IsPrefix(s, u) == Len(s) <= Len(u) /\ \A i \in 1..Len(s) : s[i] = u[i]

\* C11: every target starts Unknown with both counters at 0, and each probe moves state and
\* counters by the transition table: a success adds 1 to the success counter and zeroes the
\* failure counter (and the reverse for a failure); Unknown goes to Healthy on a success
\* and to Unhealthy on a failure; Healthy becomes Unhealthy exactly when the failure
\* counter reaches fail_after; Unhealthy becomes Healthy exactly when the success counter
\* reaches recover_after.
C11_HealthStateMachine ==
    /\ \A id \in DOMAIN runners :
          /\ runners[id].state = "UNKNOWN"
          /\ runners[id].consecutiveSuccesses = 0 /\ runners[id].consecutiveFailures = 0
    /\ [][\A id \in DOMAIN runners :
            LET r == runners[id]
                q == runners'[id]
                success == q.consecutiveSuccesses > 0
            IN (hist'.events # hist.events /\ q # r) =>
                 /\ success => /\ q.consecutiveSuccesses = r.consecutiveSuccesses + 1
                               /\ q.consecutiveFailures = 0
                 /\ ~success => /\ q.consecutiveFailures = r.consecutiveFailures + 1
                                /\ q.consecutiveSuccesses = 0
                 /\ r.state = "UNKNOWN" => q.state = IF success THEN "HEALTHY" ELSE "UNHEALTHY"
                 /\ r.state = "HEALTHY" =>
                      /\ q.state \in {"HEALTHY", "UNHEALTHY"}
                      /\ q.state = "UNHEALTHY" <=>
                            (~success /\ q.consecutiveFailures = r.target.FailAfter)
                 /\ r.state = "UNHEALTHY" =>
                      /\ q.state \in {"HEALTHY", "UNHEALTHY"}
                      /\ q.state = "HEALTHY" <=>
                            (success /\ q.consecutiveSuccesses = r.target.RecoverAfter)]_vars

\* the table's longest path: a target with both thresholds at 2 that went Unhealthy,
\* recovered after two successes and failed again after two failures
C11_Witness ==
    \E id \in DOMAIN runners :
        /\ runners[id].target.FailAfter = 2 /\ runners[id].target.RecoverAfter = 2
        /\ runners[id].state = "UNHEALTHY" /\ runners[id].consecutiveFailures = 2
        /\ Len(OfKey(hist.produced.states, id.key)) = 3

C13_Publication ==
    \A id \in DOMAIN runners :
        LET states == OfKey(observer.states, id.key)
            weights == OfKey(observer.weights, id.key)
        IN /\ IsPrefix(states, OfKey(hist.produced.states, id.key))
           /\ IsPrefix(weights, OfKey(hist.produced.weights, id.key))
           /\ runners[id].pc = "select" =>
                 /\ states = OfKey(hist.produced.states, id.key)
                 /\ weights = OfKey(hist.produced.weights, id.key)
           /\ \A i \in 1..Len(states) :
                 /\ states[i].Old # states[i].New
                 /\ states[i].Old = IF i = 1 THEN "UNKNOWN" ELSE states[i - 1].New
           /\ \A i \in 1..Len(weights) :
                 /\ weights[i].OldWeight # weights[i].NewWeight
                 /\ weights[i].OldWeight = IF i = 1 THEN -1 ELSE weights[i - 1].NewWeight

\* two targets probed concurrently, one of them with a probe that changed nothing, and
\* every callback delivered
C13_Witness ==
    /\ Cardinality(DOMAIN runners) = 2
    /\ \A id \in DOMAIN runners : runners[id].pc = "select"
    /\ Len(observer.states) = 3 /\ Len(observer.weights) = 3
    /\ hist.events = 5


(***************************************************************************)
(* Claims about retries and immediate reconciles of the engine.            *)
(***************************************************************************)
\* the engine goroutine takes a step of tryReconcile's first part
TryReconcileStep == pc = "rec_snap" /\ (pc' # "rec_snap" \/ local' # local)
\* the Apply call of tryReconcile returns
ReconcileReturns == pc = "rec_apply" /\ pc' # "rec_apply"

\* C14: the k-th consecutive failed reconcile leaves pending-reconcile set and a retry
\* deadline backoff(k) away (nothing for k = 1, 5 s up to 6 s for k = 2, 10 s up to 12 s
\* for k >= 3); the deadline only comes closer as ticks pass; until it has passed a
\* reconcile attempt calls no Apply and changes nothing; a successful reconcile zeroes
\* the counter and clears the deadline, and the next pending attempt then calls Apply.
C14_Backoff ==
    [][/\ (ReconcileReturns /\ lastApply'.err) =>
             /\ pendingReconcile'
             /\ reconcileAttempts' = reconcileAttempts + 1
             /\ reconcileAttempts' = 1 => retryWait' < 0
             /\ reconcileAttempts' = 2 => retryWait' \in 5000..5999
             /\ reconcileAttempts' >= 3 => retryWait' \in 10000..11999
       /\ (ReconcileReturns /\ ~lastApply'.err) => (reconcileAttempts' = 0 /\ retryWait' < 0)
       /\ (retryWait >= 0 /\ retryWait' # retryWait) =>
             /\ OnVIPTick
             /\ retryWait' = IF retryWait >= TickIntervalMS THEN retryWait - TickIntervalMS ELSE -1
       /\ (~ReconcileReturns) => reconcileAttempts' = reconcileAttempts
       /\ (pc # "rec_apply" /\ pc' = "rec_apply") => retryWait < 0
       /\ (TryReconcileStep /\ retryWait >= 0) =>
             /\ pc' # "rec_apply"
             /\ UNCHANGED <<kernel, lastApply, pendingReconcile, reconcileAttempts, retryWait>>
       /\ (TryReconcileStep /\ retryWait < 0 /\ cfg # NoConfig /\ active /\ pendingReconcile) =>
             pc' = "rec_apply"]_vars

\* the third failure in a row has set a deadline of at least 10 s, and two ticks have passed
C14_Witness == reconcileAttempts = 3 /\ retryWait \in 8000..9999 /\ pendingReconcile /\ pc = "idle"

\* tryReconcile is about to run and will call Apply / will find the retry deadline not passed
WillApply == pc = "rec_snap" /\ cfg # NoConfig /\ active /\ pendingReconcile /\ retryWait < 0
Deferred  == pc = "rec_snap" /\ cfg # NoConfig /\ active /\ pendingReconcile /\ retryWait >= 0

\* the engine finishes a successful reload while active, or a tick observes an acquire
ImmediateWakeup ==
    \/ pc = "reload_flags" /\ pc' # "reload_flags" /\ active
    \/ \E i \in 1..Len(emitted') : emitted'[i] = "vip_acquired"

\* from the call of tryReconcile to Apply: nothing another goroutine does takes the call
\* back, the attempt snapshots the current config with the effective weights, and Apply is
\* called with that list and the snapshot's VIP
ReconcileFollows ==
    /\ (pc = "rec_snap" /\ ~TryReconcileStep) => (WillApply => WillApply')
    /\ (WillApply /\ TryReconcileStep) =>
          /\ pc' = "rec_apply"
          /\ local'.cfg = cfg
          /\ StripWeights(local'.desired) = StripWeights(cfg.Services)
    /\ ReconcileReturns =>
          /\ lastApply'.path = "reconcile"
          /\ lastApply'.desired = local.desired /\ lastApply'.vip = cfg.VIP /\ local.cfg = cfg

\* C15 as stated: a successful reload while active, and a tick that observes an acquire,
\* invoke Apply with the current snapshot's services and VIP within the same wakeup,
\* whatever happened before.
C15_ImmediateReconcile == [][(ImmediateWakeup => WillApply') /\ ReconcileFollows]_vars

\* C15 amended: they invoke Apply within the same wakeup unless the retry deadline of an
\* earlier failed reconcile has not passed; then the attempt calls no Apply and leaves
\* pending-reconcile set.
C15_ImmediateUnlessBackoff ==
    [][/\ ImmediateWakeup => (WillApply' \/ Deferred')
       /\ ReconcileFollows
       /\ (Deferred /\ TryReconcileStep) =>
             (pc' # "rec_apply" /\ pendingReconcile' /\ UNCHANGED <<kernel, lastApply>>)]_vars

\* a reload that changed the config was processed while active (the VIP was never
\* released) and its Apply call is in progress
C15_Witness ==
    /\ pc = "rec_apply" /\ cfg = CfgPlain /\ local.desired = CfgPlain.Services
    /\ lastApply.path = "reconcile" /\ ~hist.released


\* the calls of an Apply that failed while enumerating
FailedEnumerations(failed) == {c \in failed : c.kind \in {"GetServices", "GetDestinations"}}

\* C16: when enumerating the kernel services, or the destinations of a service, fails during
\* the Apply of a reconcile, Apply returns an error and the engine counts the attempt as
\* failed (pending-reconcile stays set, the retry counter grows, reconcile_failure is
\* emitted); when the enumeration of the services fails, no mutation call is issued.
C16_EnumerationFailuresFatal ==
    [][(ReconcileReturns /\ FailedEnumerations(lastApply'.failed) # {}) =>
          /\ lastApply'.err
          /\ pendingReconcile'
          /\ reconcileAttempts' = reconcileAttempts + 1
          /\ emitted' = <<"reconcile_failure">>
          /\ (\E c \in lastApply'.failed : c.kind = "GetServices") =>
                MutationCalls(lastApply'.calls) = {}]_vars


(***************************************************************************)
(* Claims about the expansion of the declared services.                    *)
(***************************************************************************)
\* the port set P of a declared service: its explicit ports and every point of its ranges
PortSet(svc) ==
    {svc.Ports[i] : i \in 1..Len(svc.Ports)}
    \cup UNION {svc.PortRanges[i].Start..svc.PortRanges[i].End : i \in 1..Len(svc.PortRanges)}

\* the kernel service the claim names for a port of a declared service
ExpansionKey(svc, vip, port) ==
    [protocol |-> IF ProtocolToUint16(svc.Protocol) = 17 THEN "udp" ELSE "tcp",
     address |-> IPString(ParseIP(vip)), port |-> port]

\* the destinations of the kernel service at key are the backends of svc in declared order
BackendsInOrder(svc, port, dests) ==
    /\ Len(dests) = Len(svc.Backends)
    /\ \A j \in 1..Len(svc.Backends) :
          /\ dests[j].Address = ParseIP(svc.Backends[j].Address)
          /\ dests[j].Port = (IF svc.Backends[j].Port # 0 THEN svc.Backends[j].Port ELSE port)
          /\ dests[j].Weight = svc.Backends[j].Weight

Faithful(services, vip, expansion) ==
    /\ \A i \in 1..Len(services) :
          /\ Cardinality({k \in DOMAIN expansion :
                            \E p \in PortSet(services[i]) : k = ExpansionKey(services[i], vip, p)})
                = Cardinality(PortSet(services[i]))
          /\ \A p \in PortSet(services[i]) :
                LET k == ExpansionKey(services[i], vip, p) IN
                k \in DOMAIN expansion =>
                   /\ expansion[k].Service.Port = p
                   /\ expansion[k].Service.Scheduler = services[i].Scheduler
                   /\ BackendsInOrder(services[i], p, expansion[k].Destinations)
    /\ \A k \in DOMAIN expansion :
          \E i \in 1..Len(services) :
             \E p \in PortSet(services[i]) : k = ExpansionKey(services[i], vip, p)

\* C17: the expansion Apply works from holds, for every declared service, one kernel service
\* per port of its port set, keyed (protocol, VIP, port), with the service's backends as
\* destinations in declared order (port: the backend's when nonzero, else the service's;
\* weight: the backend's), and nothing else; it is a function of (services, VIP) alone.
C17_ExpansionFaithful ==
    Applied => Faithful(lastApply.desired, lastApply.vip,
                        expandConfig(lastApply.desired, lastApply.vip))


(***************************************************************************)
(* CachedManager on its own: concurrent callers of one cache over an inner *)
(* Manager.  Time is counted in ticks of the clock.                        *)
(***************************************************************************)
MaxCalls == 3
MaxClock == 1
Callers == {1, 2}
TTLs == {1}

CachedService == KernelService(ManagedVIP, "tcp", 80, "rr")
CachedDestination == KernelDestination("10.0.0.1", 80, 1)

CacheReads ==
    {Call("GetServices", NoService, NoDestination), Call("GetDestinations", CachedService, NoDestination)}
ManualInvalidate == Call("Invalidate", NoService, NoDestination)
CacheWrites ==
    {Call("CreateService", CachedService, NoDestination),
     Call("UpdateService", CachedService, NoDestination),
     Call("DeleteService", CachedService, NoDestination),
     Call("CreateDestination", CachedService, CachedDestination),
     Call("UpdateDestination", CachedService, CachedDestination),
     Call("DeleteDestination", CachedService, CachedDestination)}

\* the inner manager's answer to a read: MockManager returns a nil slice when it holds no
\* service ("var svcs []*Service"), RealManager an empty one ("make([]*Service, 0, n)")
InnerRead(inner, k, call) ==
    IF call.kind = "GetServices"
    THEN IF inner = "MockManager" /\ GetServices(k) = {} THEN Nil ELSE Slice(GetServices(k))
    ELSE Slice(GetDestinations(k, call.svc))

isValidLocked(c, now) == c.services # Nil /\ now - c.fetchedAt < c.ttl

isDestValidLocked(c, key, now) ==
    /\ key \in DOMAIN c.destFetchedAt
    /\ key \in DOMAIN c.destCache
    /\ now - c.destFetchedAt[key] < c.ttl

\* the validity test a read makes, on either path
CacheValid(c, call, now) ==
    IF call.kind = "GetServices" THEN isValidLocked(c, now)
    ELSE isDestValidLocked(c, ServiceKey(call.svc), now)

\* "Update cache" of GetServices, "Cache them" of GetDestinations
CacheStored(c, call, data, now) ==
    IF call.kind = "GetServices"
    THEN [c EXCEPT !.services = data, !.destCache = EmptyMap, !.destFetchedAt = EmptyMap,
                   !.fetchedAt = now, !.misses = @ + 1]
    ELSE [c EXCEPT !.destCache = MapPut(@, ServiceKey(call.svc), data),
                   !.destFetchedAt = MapPut(@, ServiceKey(call.svc), now), !.misses = @ + 1]

\* Fault model for C21: a failed read that is cached as an empty list.
FetchFailedCached(c) ==
    [c EXCEPT !.services = Slice({}), !.fetchedAt = clock, !.misses = @ + 1, !.mu.writer = {}]

\* the slow path when the inner read fails: "c.misses++; return nil, err" and the
\* deferred Unlock
FetchFailed(c) == [c EXCEPT !.misses = @ + 1, !.mu.writer = {}]

\* Fault model for C19: an Invalidate that forgets the destinations.
InvalidateServicesOnly(c) == [c EXCEPT !.services = Nil, !.fetchedAt = ZeroTime]

Invalidate(c) ==
    [c EXCEPT !.services = Nil, !.destCache = EmptyMap, !.destFetchedAt = EmptyMap,
              !.fetchedAt = ZeroTime]

\* Fault model for C18: a write that leaves the cache as it is.
NeverInvalidate(failed) == "return"

\* the write methods: "if err == nil { c.Invalidate() }"
AfterWrite(failed) == IF failed THEN "return" ELSE "invalidate"

\* Fault model for C22: a read that returns the cached slice itself.
ReturnReference(data) == [data |-> data, shared |-> TRUE]

\* copyServicesLocked / copyDestinationsLocked: what a read returns is a new slice of new
\* records, sharing no storage with the cache
copyLocked(data) == [data |-> data, shared |-> FALSE]

\* the entry a read of the kind of call is answered from
CacheEntry(c, call) ==
    IF call.kind = "GetServices" THEN c.services ELSE c.destCache[ServiceKey(call.svc)]

\* a caller's write to the records of a slice it was given ("services1[0].Port = 9999")
Mutated(call, data) ==
    IF call.kind = "GetServices"
    THEN [data EXCEPT !.elems = {[s EXCEPT !.Port = 9999] : s \in @}]
    ELSE [data EXCEPT !.elems = [i \in 1..Len(@) |-> [@[i] EXCEPT !.Port = 9999]]]

\* the cache after the caller of a returned read has written to what it was given: the
\* write lands in the cache when the result shares the storage of an entry still held
CallerMutates(c, call, result) ==
    IF call.kind = "GetServices"
    THEN IF result.shared /\ c.services = result.data
         THEN [c EXCEPT !.services = Mutated(call, result.data)] ELSE c
    ELSE IF /\ result.shared /\ ServiceKey(call.svc) \in DOMAIN c.destCache
            /\ c.destCache[ServiceKey(call.svc)] = result.data
         THEN [c EXCEPT !.destCache[ServiceKey(call.svc)] = Mutated(call, result.data)] ELSE c

\* a caller between calls.  During a call it holds the call, what the call is about to
\* return: err, whether the answer came from the cache (hit), and, as history, rev: how many
\* writes the inner manager had taken when the returned data was fetched (for a write: its
\* own number), and floor: the greatest number of a write that had returned when the call
\* began
NoCaller ==
    [pc |-> "idle", call |-> ManualInvalidate, err |-> FALSE, hit |-> FALSE,
     fetched |-> Nil, h |-> 0, rev |-> 0, floor |-> 0, result |-> copyLocked(Nil)]

CacheInit ==
    /\ \E inner \in {"MockManager", "RealManager"}, enabled \in BOOLEAN, ttl \in TTLs :
          cache = NewCachedManager(inner, enabled, ttl)
    /\ kernel \in {EmptyKernel, MakeKernel({KernelEntry(CachedService, <<CachedDestination>>)})}
    /\ clock = 0
    /\ goroutines = [g \in Callers |-> NoCaller]
    /\ observer = NoObserver /\ runners = EmptyMap /\ scheduler = 0
    /\ pc = "cache" /\ cfg = NoConfig /\ lastApply = NoApply
    /\ cfgHash = "" /\ active = FALSE /\ pendingReconcile = FALSE /\ pendingDisable = FALSE
    /\ backendWeights = EmptyMap /\ reconcileAttempts = 0 /\ retryWait = -1
    /\ reconcileReqCh = 0 /\ reloadCh = 0 /\ local = NoLocal
    /\ emitted = <<>> /\ hist = NoHistory
    /\ signals = NoSignals /\ stop = NoStop

CacheIdleVars == <<lastApply, cfg, cfgHash, active, pendingReconcile, pendingDisable,
                   backendWeights, scheduler, reconcileAttempts, retryWait, reconcileReqCh,
                   reloadCh, pc, local, runners, emitted, observer, signals, stop>>

Begin(g, call, at) == [NoCaller EXCEPT !.pc = at, !.call = call, !.floor = hist.floor]
Finish(g, fields) == [goroutines EXCEPT ![g] = [fields EXCEPT !.pc = "return", !.fetched = Nil, !.h = 0]]
StoredKey(call) == ServiceKey(call.svc)

\* GetServices / GetDestinations up to the end of the fast path: pass-through when the cache
\* is disabled; else under RLock either the copy of a valid entry (the caller then still
\* holds the read lock, with c.hits read for the unsynchronised c.hits++) or RUnlock
CacheRead(g) ==
    /\ pc = "cache" /\ goroutines[g].pc = "idle" /\ hist.events < MaxCalls
    /\ \E call \in CacheReads :
          IF ~cache.enabled
          THEN goroutines' = [goroutines EXCEPT ![g] = Begin(g, call, "fetch")] /\ cache' = cache
          ELSE /\ cache.mu.writer = {}
               /\ IF CacheValid(cache, call, clock)
                  THEN /\ goroutines' = [goroutines EXCEPT ![g] =
                             [Begin(g, call, "hit") EXCEPT !.hit = TRUE, !.h = cache.hits,
                                   !.result = copyLocked(CacheEntry(cache, call)),
                                   !.rev = hist.stored[StoredKey(call)].rev]]
                       /\ cache' = [cache EXCEPT !.mu.readers = @ \cup {g}]
                  ELSE /\ goroutines' = [goroutines EXCEPT ![g] = Begin(g, call, "slow")]
                       /\ cache' = cache
    /\ hist' = [hist EXCEPT !.events = @ + 1]
    /\ UNCHANGED <<kernel, clock>>
    /\ UNCHANGED CacheIdleVars

\* the rest of the fast path: c.hits++ and RUnlock
CacheHit(g) ==
    /\ pc = "cache" /\ goroutines[g].pc = "hit"
    /\ cache' = [cache EXCEPT !.hits = goroutines[g].h + 1, !.mu.readers = @ \ {g}]
    /\ goroutines' = Finish(g, goroutines[g])
    /\ UNCHANGED <<kernel, clock, hist>>
    /\ UNCHANGED CacheIdleVars

\* the slow path up to the inner call: Lock and the double-check
CacheSlowPath(g) ==
    /\ pc = "cache" /\ goroutines[g].pc = "slow"
    /\ cache.mu = Unlocked
    /\ IF CacheValid(cache, goroutines[g].call, clock)
       THEN /\ cache' = [cache EXCEPT !.hits = @ + 1]
            /\ goroutines' = Finish(g, [goroutines[g] EXCEPT !.hit = TRUE,
                                          !.result = copyLocked(CacheEntry(cache, goroutines[g].call)),
                                          !.rev = hist.stored[StoredKey(goroutines[g].call)].rev])
       ELSE /\ cache' = [cache EXCEPT !.mu.writer = {g}]
            /\ goroutines' = [goroutines EXCEPT ![g].pc = "fetch"]
    /\ UNCHANGED <<kernel, clock, hist>>
    /\ UNCHANGED CacheIdleVars

\* the inner manager's read returns (to a caller holding the write lock, unless the cache is
\* disabled); on an error the call counts a miss and returns it
CacheFetch(g) ==
    /\ pc = "cache" /\ goroutines[g].pc = "fetch"
    /\ \E failed \in BOOLEAN :
          IF failed
          THEN /\ goroutines' = Finish(g, [goroutines[g] EXCEPT !.err = TRUE])
               /\ cache' = IF cache.enabled THEN FetchFailed(cache) ELSE cache
          ELSE /\ goroutines' =
                     IF cache.enabled
                     THEN [goroutines EXCEPT ![g].pc = "store", ![g].rev = hist.writes,
                             ![g].fetched = InnerRead(cache.inner, kernel, goroutines[g].call)]
                     ELSE Finish(g, [goroutines[g] EXCEPT !.rev = hist.writes,
                              !.result = [data |-> InnerRead(cache.inner, kernel, goroutines[g].call),
                                          shared |-> FALSE]])
               /\ cache' = cache
    /\ UNCHANGED <<kernel, clock, hist>>
    /\ UNCHANGED CacheIdleVars

\* the slow path after the inner call: store, count the miss, Unlock, return a copy
CacheStore(g) ==
    /\ pc = "cache" /\ goroutines[g].pc = "store"
    /\ cache' = [CacheStored(cache, goroutines[g].call, goroutines[g].fetched, clock)
                    EXCEPT !.mu.writer = {}]
    /\ hist' = [hist EXCEPT !.stored = MapPut(@, StoredKey(goroutines[g].call),
                                              [at |-> clock, rev |-> goroutines[g].rev,
                                               data |-> goroutines[g].fetched])]
    /\ goroutines' = Finish(g, [goroutines[g] EXCEPT !.result = copyLocked(goroutines[g].fetched)])
    /\ UNCHANGED <<kernel, clock>>
    /\ UNCHANGED CacheIdleVars

\* a write method up to its Invalidate: the inner manager's call, made without the lock;
\* or the start of a manual Invalidate
CacheWrite(g) ==
    /\ pc = "cache" /\ goroutines[g].pc = "idle" /\ hist.events < MaxCalls
    /\ \/ \E call \in CacheWrites, refused \in BOOLEAN :
             IF CallFails(kernel, call, IF refused THEN {call} ELSE {})
             THEN /\ goroutines' = [goroutines EXCEPT ![g] =
                        [Begin(g, call, AfterWrite(TRUE)) EXCEPT !.err = TRUE]]
                  /\ kernel' = kernel
                  /\ hist' = [hist EXCEPT !.events = @ + 1]
             ELSE /\ goroutines' = [goroutines EXCEPT ![g] =
                        [Begin(g, call, AfterWrite(FALSE)) EXCEPT !.rev = hist.writes + 1]]
                  /\ kernel' = CallEffect(kernel, call)
                  /\ hist' = [hist EXCEPT !.events = @ + 1, !.writes = @ + 1]
       \/ /\ goroutines' = [goroutines EXCEPT ![g] = Begin(g, ManualInvalidate, "invalidate")]
          /\ kernel' = kernel
          /\ hist' = [hist EXCEPT !.events = @ + 1]
    /\ UNCHANGED <<cache, clock>>
    /\ UNCHANGED CacheIdleVars

\* Invalidate, called by a write that succeeded or by hand; the call returns after it
CacheInvalidate(g) ==
    /\ pc = "cache" /\ goroutines[g].pc = "invalidate"
    /\ cache.mu = Unlocked
    /\ cache' = Invalidate(cache)
    /\ hist' = [hist EXCEPT !.stored = EmptyMap]
    /\ goroutines' = Finish(g, goroutines[g])
    /\ UNCHANGED <<kernel, clock>>
    /\ UNCHANGED CacheIdleVars

\* the call returns to its caller, which may write to the records it was given
CacheReturn(g) ==
    /\ pc = "cache" /\ goroutines[g].pc = "return"
    /\ goroutines' = [goroutines EXCEPT ![g] = NoCaller]
    /\ \E writes \in BOOLEAN :
          cache' = IF writes /\ goroutines[g].call \in CacheReads /\ ~goroutines[g].err
                   THEN CallerMutates(cache, goroutines[g].call, goroutines[g].result)
                   ELSE cache
    /\ hist' = IF goroutines[g].call \in CacheWrites /\ ~goroutines[g].err /\ goroutines[g].rev > hist.floor
               THEN [hist EXCEPT !.floor = goroutines[g].rev] ELSE hist
    /\ UNCHANGED <<kernel, clock>>
    /\ UNCHANGED CacheIdleVars

\* time passes
CacheTick ==
    /\ pc = "cache" /\ clock < MaxClock
    /\ clock' = clock + 1
    /\ UNCHANGED <<kernel, cache, goroutines, hist>>
    /\ UNCHANGED CacheIdleVars

CacheNext ==
    \/ \E g \in Callers : CacheRead(g)
    \/ \E g \in Callers : CacheHit(g)
    \/ \E g \in Callers : CacheSlowPath(g)
    \/ \E g \in Callers : CacheFetch(g)
    \/ \E g \in Callers : CacheStore(g)
    \/ \E g \in Callers : CacheWrite(g)
    \/ \E g \in Callers : CacheInvalidate(g)
    \/ \E g \in Callers : CacheReturn(g)
    \/ CacheTick

CacheSpec == CacheInit /\ [][CacheNext]_vars


(***************************************************************************)
(* Claims about the state cache.                                           *)
(***************************************************************************)
\* C18: with concurrent readers and writers on one enabled cache, the data a read returns
\* was fetched from the inner manager after every write that had returned successfully
\* when the read began, and no entry in the cache was filled before such a write.
C18_CacheCoherence ==
    cache.enabled =>
       /\ \A g \in Callers :
             (/\ goroutines[g].pc \in {"hit", "return"}
              /\ goroutines[g].call \in CacheReads
              /\ ~goroutines[g].err) => goroutines[g].rev >= goroutines[g].floor
       /\ cache.services # Nil => hist.stored[ServiceKey(NoService)].rev >= hist.floor
       /\ \A key \in DOMAIN cache.destCache : hist.stored[key].rev >= hist.floor

\* a read is answered from the cache after a write had returned, with data fetched after it
C18_Witness ==
    \E g \in Callers :
       /\ cache.enabled /\ goroutines[g].pc = "return" /\ goroutines[g].call \in CacheReads
       /\ goroutines[g].hit /\ goroutines[g].floor >= 1 /\ goroutines[g].rev >= goroutines[g].floor

\* both caches are empty, so that a read of either kind goes to the inner manager
CacheEmpty(c, now) ==
    /\ c.services = Nil /\ c.fetchedAt = ZeroTime
    /\ c.destCache = EmptyMap /\ c.destFetchedAt = EmptyMap
    /\ \A call \in CacheReads : ~CacheValid(c, call, now)

\* caller g's write or manual Invalidate has done its work in this step
Completes(g) ==
    /\ goroutines[g].pc # "return" /\ goroutines'[g].pc = "return"
    /\ goroutines'[g].call \in CacheWrites \cup {ManualInvalidate}

Fresh(call) ==
    /\ StoredKey(call) \in DOMAIN hist.stored
    /\ clock - hist.stored[StoredKey(call)].at < cache.ttl

\* C20: with the cache enabled a read is answered from the cache, without a call to the
\* inner manager, exactly when a successful read of the same kind was stored less than TTL
\* ago with no invalidation since, whatever the stored result (an empty one included).
C20_TTLReadThrough ==
    [][\A g \in Callers :
          /\ (/\ goroutines[g].pc = "idle" /\ goroutines'[g].pc \in {"hit", "slow"})
                => (goroutines'[g].pc = "hit" <=> Fresh(goroutines'[g].call))
          /\ (/\ goroutines[g].pc = "slow" /\ goroutines'[g].pc \in {"return", "fetch"})
                => (goroutines'[g].pc = "return" <=> Fresh(goroutines[g].call))]_vars


\* C21: when the inner manager's read fails, the cache returns the error, the cached
\* services, destinations and their timestamps stay as they were, and the cache holds no
\* entry that would answer the next read of that kind without the inner manager.
C21_ErrorsNeverCached ==
    [][\A g \in Callers :
          (goroutines[g].pc = "fetch" /\ goroutines'[g].pc = "return" /\ goroutines'[g].err) =>
             /\ goroutines'[g].call = goroutines[g].call /\ ~goroutines'[g].hit
             /\ cache'.services = cache.services /\ cache'.fetchedAt = cache.fetchedAt
             /\ cache'.destCache = cache.destCache /\ cache'.destFetchedAt = cache.destFetchedAt
             /\ ~CacheValid(cache', goroutines[g].call, clock')]_vars

\* a destination read has failed while the cache holds a service list, which it keeps
C21_Witness ==
    \E g \in Callers :
       /\ cache.enabled /\ goroutines[g].pc = "return" /\ goroutines[g].err
       /\ goroutines[g].call.kind = "GetDestinations"
       /\ cache.services # Nil /\ isValidLocked(cache, clock)


C27_NoLockAcrossInnerCall ==
    \A g \in Callers :
       goroutines[g].pc = "fetch" => (g \notin cache.mu.writer /\ g \notin cache.mu.readers)

(***************************************************************************)
(* Claims about the order and the isolation of the calls of one Apply      *)
(* (checked under ReconcilerSpec).                                         *)
(***************************************************************************)
DestinationKinds == {"CreateDestination", "UpdateDestination", "DeleteDestination"}
CallsOfKind(calls, kinds) == {i \in 1..Len(calls) : calls[i].kind \in kinds}
SameService(c, d) == ServiceKey(c.svc) = ServiceKey(d.svc)

\* C29: within one Apply every DeleteService call comes after every CreateService and
\* UpdateService call; the CreateService and the UpdateService of a service come before
\* every destination call for that service; no destination is enumerated or changed for a
\* service whose CreateService failed; and for one service every CreateDestination and
\* UpdateDestination call comes before every DeleteDestination call.
C29_MutationOrdering ==
    Applied =>
       LET calls == lastApply.calls
       IN /\ \A i \in CallsOfKind(calls, {"DeleteService"}) :
                \A j \in CallsOfKind(calls, {"CreateService", "UpdateService"}) : j < i
          /\ \A i \in CallsOfKind(calls, {"CreateService", "UpdateService"}) :
                \A j \in CallsOfKind(calls, DestinationKinds \cup {"GetDestinations"}) :
                   SameService(calls[i], calls[j]) =>
                      (i < j /\ ~(calls[i].kind = "CreateService" /\ calls[i] \in lastApply.failed))
          /\ \A i \in CallsOfKind(calls, {"CreateDestination", "UpdateDestination"}) :
                \A j \in CallsOfKind(calls, {"DeleteDestination"}) :
                   SameService(calls[i], calls[j]) => i < j

\* one Apply has updated a scheduler, updated and deleted destinations of that service,
\* created a service with a destination, and deleted an obsolete service
C29_Witness ==
    /\ Applied /\ lastApply.failed = {}
    /\ \A kind \in MutationKinds : CallsOfKind(lastApply.calls, {kind}) # {}

\* everything an Apply did to, and left of, the service with this key
CallsFor(calls, key) ==
    LET mine(c) == c.kind # "GetServices" /\ ServiceKey(c.svc) = key
    IN SelectSeq(calls, mine)
TablesAt(k, key) ==
    [Services |-> [x \in DOMAIN k.Services \cap {key} |-> k.Services[x]],
     Destinations |-> [x \in DOMAIN k.Destinations \cap {key} |-> k.Destinations[x]]]
FailedKeys(a) == {ServiceKey(c.svc) : c \in a.failed}
PassKeys(a) == DOMAIN a.before.Services \cup DOMAIN expandConfig(a.desired, a.vip)

\* the Apply made the calls for every service outside FailedKeys, and left its tables, as
\* the pass in which no call fails does
Isolated(a, clean) ==
    \A key \in PassKeys(a) \ FailedKeys(a) :
       /\ CallsFor(a.calls, key) = CallsFor(clean.calls, key)
       /\ TablesAt(a.after, key) = TablesAt(clean.kernel, key)

\* C30: when calls fail for a service during an Apply that got its list of services, the
\* calls made for every other service, desired or obsolete, and the tables of every other
\* service after the pass are those of the same pass without a failure.
C30_FailureIsolation ==
    (Applied /\ ~lastApply.err /\ lastApply.failed # {}) =>
       \E rev \in BOOLEAN :
          Isolated(lastApply, Apply(lastApply.before, lastApply.desired, lastApply.vip, {}, rev))

\* a call for one service failed, and the pass went on to change another service
C30_Witness ==
    /\ Applied /\ ~lastApply.err
    /\ \E i, j \in MutationCalls(lastApply.calls) :
          /\ i < j /\ lastApply.calls[i] \in lastApply.failed
          /\ ~SameService(lastApply.calls[i], lastApply.calls[j])
    /\ \E i \in CallsOfKind(lastApply.calls, {"DeleteService"}) :
          ServiceKey(lastApply.calls[i].svc) \notin FailedKeys(lastApply)

(***************************************************************************)
(* Claims about the engine's wakeups and its concurrency (checked under    *)
(* Spec).                                                                  *)
(***************************************************************************)
\* the weight of every backend of the composed list that has an entry in the weight map
ComposedFrom(desired, services, weights) ==
    /\ Len(desired) = Len(services)
    /\ \A i \in 1..Len(services) :
          /\ Len(desired[i].Backends) = Len(services[i].Backends)
          /\ \A j \in 1..Len(services[i].Backends) :
                LET key == BackendKey(services[i].Name, services[i].Backends[j].Address)
                IN desired[i].Backends[j].Weight =
                      IF key \in DOMAIN weights THEN weights[key]
                      ELSE services[i].Backends[j].Weight

\* C23: the reconcile-request channel holds at most one request and a prober that posts
\* one is never blocked, however many weight changes arrive between two wakeups; a
\* reconcile that goes on to Apply composes its desired list from the weight map's value,
\* at that moment, of every entry, and calls Apply with that list.
C23_Coalescing ==
    /\ [](/\ reconcileReqCh \in {0, 1}
          /\ \A id \in DOMAIN runners : runners[id].pc = "post" => ENABLED RunnerPost(id))
    /\ [][/\ (pc = "rec_snap" /\ pc' = "rec_apply") =>
                ComposedFrom(local'.desired, cfg.Services, backendWeights)
          /\ (pc = "rec_apply" /\ pc' # "rec_apply") => lastApply'.desired = local.desired]_vars

\* a request is queued, a prober is about to post another one for a later weight change,
\* and the engine is in a reconcile composed with a published weight
C23_Witness ==
    /\ reconcileReqCh = 1 /\ pc = "rec_apply"
    /\ \E id \in DOMAIN runners : runners[id].pc = "post"
    /\ \E i \in 1..Len(cfg.Services) : \E j \in 1..Len(cfg.Services[i].Backends) :
          /\ BackendKey(cfg.Services[i].Name, cfg.Services[i].Backends[j].Address) \in DOMAIN backendWeights
          /\ local.desired[i].Backends[j].Weight # cfg.Services[i].Backends[j].Weight

ApplyInFlight == pc \in {"rec_apply", "dis_apply"}

\* C28: the engine takes a wakeup (a tick, a reconcile request, a reload) only when the
\* handler of the one before has returned, so an Apply starts only when none is in
\* flight; and while an Apply is in flight the snapshot, its hash, the active flag, the
\* retry counter and deadline and pending-disable stay as they are, whatever the probers
\* and the signal handler do meanwhile.
C28_Serialization ==
    [][/\ (reconcileReqCh' < reconcileReqCh \/ reloadCh' < reloadCh \/ OnVIPTick) => pc = "idle"
       /\ (~ApplyInFlight /\ ApplyInFlight') => pc \in {"rec_snap", "dis_snap"}
       /\ (ApplyInFlight /\ ApplyInFlight') =>
             /\ pc' = pc /\ local' = local /\ lastApply' = lastApply /\ kernel' = kernel
             /\ UNCHANGED <<cfg, cfgHash, active, reconcileAttempts, retryWait, pendingDisable>>]_vars

\* while an Apply is in flight a prober has changed the weight map behind the list the
\* Apply was called with, and a reconcile request and a reload notification are waiting
C28_Witness ==
    /\ pc = "rec_apply" /\ reconcileReqCh = 1 /\ reloadCh = 1 /\ pendingReconcile
    /\ local.desired # applyEffectiveWeights(local.cfg.Services, backendWeights)

(***************************************************************************)
(* StopSpec: a started Scheduler whose Stop is called by two goroutines    *)
(* while its probers run.                                                  *)
(***************************************************************************)
StopCallers == {1, 2}

\* a goroutine that has not called Stop yet; pc is its position in Stop: "close" about to
\* close the stop channel of Head(order), "wait" at "<-r.doneCh", "returned"
NoStopCaller == [pc |-> "idle", order |-> <<>>]

StopInit ==
    /\ \E targets \in {<<Target("10.0.0.1", 1, 1, 5)>>,
                       <<Target("10.0.0.1", 2, 2, 5), Target("10.0.0.2", 1, 1, 5)>>} :
          /\ runners = SchedulerStart(EmptyMap, 1, targets).runners
          /\ goroutines = [id \in {RunnerId(1, targets[i].Key) : i \in 1..Len(targets)} |-> NoChange]
    /\ stop = [stopped |-> FALSE, callers |-> [c \in StopCallers |-> NoStopCaller]]
    /\ scheduler = 1
    /\ observer = NoObserver
    /\ pc = "health" /\ cfg = NoConfig /\ kernel = EmptyKernel /\ lastApply = NoApply
    /\ cfgHash = "" /\ active = FALSE /\ pendingReconcile = FALSE /\ pendingDisable = FALSE
    /\ backendWeights = EmptyMap /\ reconcileAttempts = 0 /\ retryWait = -1
    /\ reconcileReqCh = 0 /\ reloadCh = 0 /\ local = NoLocal
    /\ emitted = <<>> /\ hist = NoHistory
    /\ cache = NewCachedManager("MockManager", FALSE, 0) /\ clock = 0
    /\ signals = NoSignals

StopIdleVars == <<kernel, lastApply, cfg, cfgHash, active, pendingReconcile, pendingDisable,
                  backendWeights, scheduler, reconcileAttempts, retryWait, reconcileReqCh,
                  reloadCh, pc, local, cache, clock, signals, observer, goroutines, hist>>

\* Scheduler.Stop, its locked section: return at once when stopped is set, else set it and
\* collect the runners (in the order the map yields them)
StopEnter(c) ==
    /\ pc = "health" /\ stop.callers[c].pc = "idle"
    /\ IF stop.stopped
       THEN stop' = [stop EXCEPT !.callers[c].pc = "returned"]
       ELSE \E order \in Orders(DOMAIN runners) :
               stop' = [stopped |-> TRUE,
                        callers |-> [stop.callers EXCEPT ![c] =
                                        [pc |-> IF order = <<>> THEN "returned" ELSE "close",
                                         order |-> order]]]
    /\ emitted' = <<>>
    /\ UNCHANGED runners
    /\ UNCHANGED StopIdleVars

\* Scheduler.Stop: "close(r.stopCh)" and "r.ticker.Stop()" for the next runner
StopClose(c) ==
    /\ pc = "health" /\ stop.callers[c].pc = "close"
    /\ runners' = CloseStopCh(runners, Head(stop.callers[c].order))
    /\ stop' = [stop EXCEPT !.callers[c].pc = "wait"]
    /\ emitted' = <<>>
    /\ UNCHANGED StopIdleVars

\* Scheduler.Stop: "<-r.doneCh" returns once that runner has left run; then the next
\* runner, or the return
StopAwait(c) ==
    /\ pc = "health" /\ stop.callers[c].pc = "wait"
    /\ Head(stop.callers[c].order) \notin DOMAIN runners
    /\ stop' = [stop EXCEPT !.callers[c] =
                   [pc |-> IF Tail(@.order) = <<>> THEN "returned" ELSE "close",
                    order |-> Tail(@.order)]]
    /\ emitted' = <<>>
    /\ UNCHANGED runners
    /\ UNCHANGED StopIdleVars

StopNext ==
    \/ \E id \in DOMAIN runners : HealthProbe(id)
    \/ \E id \in DOMAIN runners : HealthStateCallback(id)
    \/ \E id \in DOMAIN runners : HealthWeightCallback(id)
    \/ \E id \in DOMAIN runners : RunnerExit(id)
    \/ \E c \in StopCallers : StopEnter(c)
    \/ \E c \in StopCallers : StopClose(c)
    \/ \E c \in StopCallers : StopAwait(c)

StopSpec == StopInit /\ [][StopNext]_vars

StopReturned == \E c \in DOMAIN stop.callers : stop.callers[c].pc = "returned"

\* C24: Stop may be called by several goroutines at once; a call of Stop returns only when
\* every prober has left its loop, and once a call has returned no probe is performed and
\* no observer callback is delivered.
C24_StopDrains ==
    /\ [](StopReturned => runners = EmptyMap)
    /\ [][StopReturned => (hist'.events = hist.events /\ observer' = observer)]_vars

(***************************************************************************)
(* SignalSpec: ContextWithSignals after it has returned: the runtime       *)
(* relays signals into sigCh, the handler goroutine turns them into reload *)
(* notifications or a cancellation, the caller receives notifications.     *)
(***************************************************************************)
SigChCapacity == 2
Signals == {"SIGHUP", "SIGTERM", "SIGINT"}
TerminateSignals == {"SIGTERM", "SIGINT"}

SignalInit ==
    /\ signals = [NoSignals EXCEPT !.notify = TRUE, !.handler = "select"]
    /\ reloadCh = 0
    /\ pc = "signals" /\ cfg = NoConfig /\ kernel = EmptyKernel /\ lastApply = NoApply
    /\ cfgHash = "" /\ active = FALSE /\ pendingReconcile = FALSE /\ pendingDisable = FALSE
    /\ backendWeights = EmptyMap /\ scheduler = 0 /\ reconcileAttempts = 0 /\ retryWait = -1
    /\ reconcileReqCh = 0 /\ local = NoLocal /\ runners = EmptyMap
    /\ emitted = <<>> /\ hist = NoHistory
    /\ observer = NoObserver /\ cache = NewCachedManager("MockManager", FALSE, 0) /\ clock = 0
    /\ goroutines = EmptyMap /\ stop = NoStop

SignalIdleVars == <<kernel, lastApply, cfg, cfgHash, active, pendingReconcile, pendingDisable,
                    backendWeights, scheduler, reconcileAttempts, retryWait, reconcileReqCh,
                    pc, local, runners, emitted, observer, cache, clock, goroutines, stop>>

\* signal.Notify(sigCh, ...): the runtime hands a signal to the channel without blocking,
\* so a signal that finds the channel full is dropped
Deliver(sig) ==
    /\ pc = "signals" /\ signals.notify
    /\ hist.events < MaxEvents
    /\ signals' = [signals EXCEPT
                      !.sigCh = IF Len(@) < SigChCapacity THEN Append(@, sig) ELSE @,
                      !.terminate = @ \/ sig \in TerminateSignals]
    /\ hist' = [hist EXCEPT !.events = @ + 1]
    /\ UNCHANGED reloadCh
    /\ UNCHANGED SignalIdleVars

\* "select { case reloadCh <- struct{}{}: default: }" on a channel of capacity 1
notifyReload(ch) == IF ch < 1 THEN ch + 1 ELSE ch

\* the handler's "case sig := <-sigCh": a SIGHUP is posted to the reload channel, a
\* SIGTERM or an interrupt calls stop() and returns
HandlerReceive ==
    /\ pc = "signals" /\ signals.handler = "select"
    /\ signals.sigCh # <<>>
    /\ IF Head(signals.sigCh) \in TerminateSignals
       THEN /\ signals' = [signals EXCEPT !.sigCh = Tail(@), !.notify = FALSE,
                                          !.ctx = "cancelled", !.handler = "defer"]
            /\ UNCHANGED reloadCh
       ELSE /\ signals' = [signals EXCEPT !.sigCh = Tail(@)]
            /\ reloadCh' = notifyReload(reloadCh)
    /\ UNCHANGED hist
    /\ UNCHANGED SignalIdleVars

\* the handler's "case <-ctx.Done(): return"
HandlerDone ==
    /\ pc = "signals" /\ signals.handler = "select"
    /\ signals.ctx = "cancelled"
    /\ signals' = [signals EXCEPT !.handler = "defer"]
    /\ UNCHANGED <<reloadCh, hist>>
    /\ UNCHANGED SignalIdleVars

\* the handler's deferred calls: stopSignals(sigCh), close(reloadCh)
HandlerDefer ==
    /\ pc = "signals" /\ signals.handler = "defer"
    /\ signals' = [signals EXCEPT !.handler = "exited", !.notify = FALSE, !.closed = TRUE]
    /\ UNCHANGED <<reloadCh, hist>>
    /\ UNCHANGED SignalIdleVars

\* the caller calls the returned stop function (its first call: stopSignals and cancel)
CallStop ==
    /\ pc = "signals" /\ signals.ctx = "live"
    /\ hist.events < MaxEvents
    /\ signals' = [signals EXCEPT !.notify = FALSE, !.ctx = "cancelled"]
    /\ hist' = [hist EXCEPT !.events = @ + 1]
    /\ UNCHANGED reloadCh
    /\ UNCHANGED SignalIdleVars

\* the parent context is cancelled, and the derived context with it
ParentCancel ==
    /\ pc = "signals" /\ signals.ctx = "live"
    /\ hist.events < MaxEvents
    /\ signals' = [signals EXCEPT !.ctx = "cancelled"]
    /\ hist' = [hist EXCEPT !.events = @ + 1]
    /\ UNCHANGED reloadCh
    /\ UNCHANGED SignalIdleVars

\* the caller receives a reload notification
ReceiveReload ==
    /\ pc = "signals" /\ reloadCh > 0
    /\ reloadCh' = reloadCh - 1
    /\ UNCHANGED <<signals, hist>>
    /\ UNCHANGED SignalIdleVars

SignalNext ==
    \/ \E sig \in Signals : Deliver(sig)
    \/ HandlerReceive
    \/ HandlerDone
    \/ HandlerDefer
    \/ CallStop
    \/ ParentCancel
    \/ ReceiveReload

\* the handler goroutine is scheduled: it takes one of the ready cases of its select, and
\* runs its deferred calls once it has returned
SignalSpec ==
    SignalInit /\ [][SignalNext]_vars
    /\ WF_vars(HandlerReceive \/ HandlerDone) /\ WF_vars(HandlerDefer)

\* the reload channel holds at most one notification, the handler is never blocked on it,
\* and a SIGHUP handled while a notification waits leaves that one notification
ReloadsCoalesce ==
    /\ [](/\ reloadCh \in {0, 1}
          /\ (signals.handler = "select" /\ signals.sigCh # <<>>) => ENABLED HandlerReceive)
    /\ [][(reloadCh = 1 /\ signals'.sigCh # signals.sigCh) => reloadCh' = 1]_vars

\* C26: reload signals that arrive while a notification is undelivered leave exactly one
\* notification, without blocking the handler; and once a terminate signal has been sent
\* to the process, the returned context gets cancelled.
C26_SignalContract ==
    /\ ReloadsCoalesce
    /\ signals.terminate ~> signals.ctx = "cancelled"

(***************************************************************************)
(* ShutdownSpec: the daemon's loop with its root context: the context is   *)
(* cancelled at some point, the signal handler closes the reload channel,  *)
(* Run takes "case <-ctx.Done()" and its deferred stopHealthScheduler.     *)
(***************************************************************************)
\* a file the validator accepts: two backends at one address, health checks enabled
CfgDuplicate ==
    Config(ManagedVIP, <<ConfigService("web", "tcp", <<80>>, <<>>, "rr",
                                       <<Backend("10.0.0.1", 8080, 2), Backend("10.0.0.1", 8081, 1)>>,
                                       Health(1, 1))>>)

OnReloadDuplicate == OnReloadFile(File(FALSE, CfgDuplicate))

ShutdownIdleVars == <<kernel, lastApply, cfg, cfgHash, active, pendingReconcile, pendingDisable,
                      backendWeights, reconcileAttempts, retryWait, reconcileReqCh,
                      observer, cache, clock, goroutines, stop>>

\* the root context is cancelled: by the signal handler on a terminate signal, by the stop
\* function, or through the parent context
Cancel ==
    /\ pc # "exited" /\ signals.ctx = "live"
    /\ signals' = [signals EXCEPT !.ctx = "cancelled"]
    /\ emitted' = <<>>
    /\ UNCHANGED <<scheduler, runners, reloadCh, pc, local, hist>>
    /\ UNCHANGED ShutdownIdleVars

\* the signal handler returns on the cancelled context and closes the reload channel
CloseReload ==
    /\ signals.ctx = "cancelled" /\ ~signals.closed
    /\ signals' = [signals EXCEPT !.closed = TRUE]
    /\ emitted' = <<>>
    /\ UNCHANGED <<scheduler, runners, reloadCh, pc, local, hist>>
    /\ UNCHANGED ShutdownIdleVars

\* a closed reload channel is always ready in Run's select: "case <-e.reloadCh" is taken
\* again (as often as the bound on events allows)
ClosedReady ==
    /\ signals.closed /\ reloadCh = 0 /\ pc # "done"
    /\ hist.events < MaxEvents
    /\ reloadCh' = 1
    /\ hist' = [hist EXCEPT !.events = @ + 1]
    /\ emitted' = <<>>
    /\ UNCHANGED <<scheduler, runners, signals, pc, local>>
    /\ UNCHANGED ShutdownIdleVars

\* Run's "case <-ctx.Done(): return nil": the deferred calls run next
OnDone ==
    /\ InSelect(pc) /\ signals.ctx = "cancelled"
    /\ pc' = "down_stop"
    /\ emitted' = <<>>
    /\ UNCHANGED <<scheduler, runners, signals, reloadCh, local, hist>>
    /\ UNCHANGED ShutdownIdleVars

\* Run's deferred stopHealthScheduler: take the scheduler out of the engine and enter its
\* Stop; with no scheduler, or one without runners, Run returns
ShutdownStop ==
    /\ pc = "down_stop"
    /\ scheduler' = 0
    /\ LET mine == {id \in DOMAIN runners : id.sched = scheduler}
       IN IF scheduler = 0 \/ mine = {}
          THEN /\ pc' = "done"
               /\ UNCHANGED <<runners, local>>
          ELSE \E order \in Orders(mine) :
                  /\ pc' = "down_wait"
                  /\ local' = [local EXCEPT !.stopping = order]
                  /\ runners' = CloseStopCh(runners, order[1])
    /\ emitted' = <<>>
    /\ UNCHANGED <<signals, reloadCh, hist>>
    /\ UNCHANGED ShutdownIdleVars

\* Scheduler.Stop inside the deferred call: "<-r.doneCh", then the next runner or the return
ShutdownAwait ==
    /\ pc = "down_wait"
    /\ Head(local.stopping) \notin DOMAIN runners
    /\ IF Tail(local.stopping) = <<>>
       THEN /\ pc' = "done"
            /\ local' = NoLocal
            /\ UNCHANGED runners
       ELSE /\ pc' = "down_wait"
            /\ local' = [local EXCEPT !.stopping = Tail(@)]
            /\ runners' = CloseStopCh(runners, local.stopping[2])
    /\ emitted' = <<>>
    /\ UNCHANGED <<scheduler, signals, reloadCh, hist>>
    /\ UNCHANGED ShutdownIdleVars

ShutdownNext ==
    \/ Next
    \/ OnReloadDuplicate
    \/ Cancel
    \/ CloseReload
    \/ ClosedReady
    \/ OnDone
    \/ ShutdownStop
    \/ ShutdownAwait

\* what the engine goroutine does by itself once it is in a handler or in Run's prologue
\* or epilogue
EngineStep ==
    \/ Startup \/ StartScheduler \/ InitialVIPSync
    \/ TryReconcile \/ TryDisable
    \/ StopHealthScheduler \/ AwaitRunner \/ ReloadFlags
    \/ ShutdownStop \/ ShutdownAwait

\* the Apply call the engine is in returns (ReconcileApply or DisableApply is taken)
ApplyReturns == pc \in {"rec_apply", "dis_apply"} /\ pc' \in {"idle", "rec_snap", "dis_snap"}

\* what a prober goroutine does by itself: finish the callback it is in, leave run once
\* its stop channel is closed
ProberStep == \E id \in DOMAIN runners : RunnerPublish(id) \/ RunnerPost(id) \/ RunnerExit(id)

\* the goroutines are scheduled, every Manager call returns, and Run's select, which
\* picks at random among its ready cases, does not pass over the cancelled context forever
ShutdownSpec ==
    Init /\ [][ShutdownNext]_vars
    /\ WF_vars(EngineStep) /\ WF_pc(ApplyReturns) /\ WF_vars(ProberStep) /\ SF_vars(OnDone)

\* Run is past its prologue (the errors of which it returns) and has not returned
Running == pc \notin {"load", "exited", "done"} /\ ~(pc = "start_sched" /\ local.isStartup)

\* a cancelled context makes Run return nil, whatever the probers do meanwhile
ShutdownTerminates == (Running /\ signals.ctx = "cancelled") ~> pc = "done"

\* C25: once the root context is cancelled, Run returns nil, also while probers deliver
\* callbacks, and when it has returned the engine has no scheduler and no prober is left.
C25_Shutdown ==
    /\ ShutdownTerminates
    /\ [](pc = "done" => (scheduler = 0 /\ runners = EmptyMap))

(***************************************************************************)
(* Claims about the calls one Apply makes for each key (checked under      *)
(* ReconcilerSpec).                                                        *)
(***************************************************************************)
NoDestinationKey == DestinationKey(NoDestination)

\* the weights the list holds under one destination key
WeightsAt(dests, dkey) == {dests[i].Weight : i \in {j \in 1..Len(dests) : DestinationKey(dests[j]) = dkey}}

\* the destination keys an Apply could name for a service key
DestinationKeysAt(a, key) ==
    LET expansion == expandConfig(a.desired, a.vip)
    IN (IF key \in DOMAIN a.before.Destinations
        THEN DesiredDestinationKeys(a.before.Destinations[key]) ELSE {})
       \cup (IF key \in DOMAIN expansion
             THEN DesiredDestinationKeys(expansion[key].Destinations) ELSE {})

\* how often the Apply made the call of this kind for this service and destination key
Issued(a, kind, key, dkey) ==
    Cardinality({i \in 1..Len(a.calls) :
                    /\ a.calls[i].kind = kind
                    /\ ServiceKey(a.calls[i].svc) = key
                    /\ DestinationKey(a.calls[i].dst) = dkey})

\* whether the difference between the tables before the Apply and the expansion of its
\* desired list asks for the call of this kind for this service and destination key
Due(a, kind, key, dkey) ==
    LET expansion == expandConfig(a.desired, a.vip)
        present == key \in DOMAIN a.before.Services
        wanted  == key \in DOMAIN expansion
        have == IF key \in DOMAIN a.before.Destinations
                THEN WeightsAt(a.before.Destinations[key], dkey) ELSE {}
        want == IF wanted THEN WeightsAt(expansion[key].Destinations, dkey) ELSE {}
    IN CASE kind = "CreateService" -> dkey = NoDestinationKey /\ wanted /\ ~present
         [] kind = "UpdateService" ->
               /\ dkey = NoDestinationKey /\ wanted /\ present
               /\ a.before.Services[key].Scheduler # expansion[key].Service.Scheduler
         [] kind = "DeleteService" ->
               /\ dkey = NoDestinationKey /\ present /\ ~wanted
               /\ a.before.Services[key].Address = ParseIP(a.vip)
         [] kind = "CreateDestination" -> wanted /\ want # {} /\ have = {}
         [] kind = "UpdateDestination" -> wanted /\ present /\ want # {} /\ have # {} /\ want # have
         [] kind = "DeleteDestination" -> wanted /\ present /\ want = {} /\ have # {}
         [] OTHER -> FALSE

\* C31 (minimal diff): every create, update or delete call of an Apply is the one the
\* difference asks for (UpdateService: the service exists with another scheduler;
\* UpdateDestination: the destination exists with another weight; a create: the key is
\* absent; a delete: the key is present, not desired and, for a service, at the managed
\* VIP) and is made once for its key; and an Apply in which no call failed makes every
\* call the difference asks for, so a change of scheduler alone yields one UpdateService
\* for each affected service and no destination call.
C31_MinimalDiff ==
    Applied =>
        /\ \A i \in MutationCalls(lastApply.calls) :
              LET c == lastApply.calls[i]
              IN /\ Due(lastApply, c.kind, ServiceKey(c.svc), DestinationKey(c.dst))
                 /\ Issued(lastApply, c.kind, ServiceKey(c.svc), DestinationKey(c.dst)) = 1
        /\ lastApply.failed = {} =>
              \A key \in PassKeys(lastApply) :
                 \A dkey \in DestinationKeysAt(lastApply, key) \cup {NoDestinationKey} :
                    \A kind \in MutationKinds :
                       Due(lastApply, kind, key, dkey) => Issued(lastApply, kind, key, dkey) = 1

(***************************************************************************)
(* Claims about the disable path (checked under Spec).                     *)
(***************************************************************************)
Standby == cfg # NoConfig /\ ~active
RetryState == <<reconcileAttempts, retryWait>>

\* a tick of a standby engine that found the VIP absent: it goes on to tryDisable
AbsentTick == OnVIPTick /\ ~active /\ pc' = "dis_snap"

\* C32 (disable has no backoff): a standby tick that finds the VIP absent enters
\* tryDisable; with pending-disable set tryDisable goes on to Apply with an empty
\* desired list and the snapshot's VIP, whatever the retry counter and the retry
\* deadline are, and without pending-disable it returns without a call; the disable
\* pass leaves the retry counter and the deadline as they were, leaves pending-disable
\* set when Apply returned an error and clears it when Apply succeeded.
C32_DisableNoBackoff ==
    [][/\ (AbsentTick /\ pendingDisable) => (pendingDisable' /\ ~active')
       /\ (TryDisable /\ Standby /\ pendingDisable) =>
             (pc' = "dis_apply" /\ local'.desired = <<>> /\ local'.cfg = cfg)
       /\ (TryDisable /\ ~pendingDisable) => (pc' # "dis_apply" /\ lastApply' = lastApply)
       /\ (pc = "dis_apply" /\ pc' # "dis_apply") =>
             /\ lastApply'.path = "disable" /\ lastApply'.desired = <<>>
             /\ lastApply'.vip = local.cfg.VIP
             /\ RetryState' = RetryState
             /\ pendingDisable' = lastApply'.err
       /\ (pc \in {"dis_snap", "dis_apply"} /\ pc' = pc /\ local' = local) =>
             (pendingDisable' = pendingDisable /\ active' = active /\ cfg' = cfg)]_vars

\* a disable pass has failed while a reconcile retry deadline was outstanding, and the
\* next standby tick has called Apply again
C32_Witness ==
    /\ lastApply.path = "disable" /\ lastApply.err /\ lastApply.desired = <<>>
    /\ pc = "dis_apply" /\ pendingDisable /\ ~active
    /\ retryWait >= 0 /\ reconcileAttempts > 0

(***************************************************************************)
(* LifecycleSpec: the engine's loop with reloads that change the ports and *)
(* the protocol of the service, or the managed VIP.  The daemon starts on  *)
(* tables that hold another tenant's service only, so every service at     *)
(* another address is one the engine has created.                          *)
(***************************************************************************)
MovedVIP == "192.0.2.11"

\* the service on another protocol and port; the same service at another VIP
CfgPorts == Config(ManagedVIP, <<ConfigService("web", "udp", <<81>>, <<>>, "rr",
                                               <<Backend("10.0.0.1", 0, 2)>>, NoHealth)>>)
CfgMoved == Config(MovedVIP, <<WebService(NoHealth)>>)

TenantKernel ==
    MakeKernel({KernelEntry(KernelService(ForeignVIP, "tcp", 80, "rr"),
                            <<KernelDestination("10.0.0.1", 80, 1)>>)})

LifecycleInit ==
    /\ kernel = TenantKernel
    /\ lastApply = NoApply
    /\ cfg = NoConfig /\ cfgHash = ""
    /\ active = FALSE /\ pendingReconcile = FALSE /\ pendingDisable = FALSE
    /\ backendWeights = EmptyMap /\ scheduler = 0 /\ reconcileAttempts = 0 /\ retryWait = -1
    /\ reconcileReqCh = 0 /\ reloadCh = 0 /\ pc = "load" /\ local = NoLocal
    /\ runners = EmptyMap /\ emitted = <<>> /\ hist = NoHistory
    /\ ComponentsIdle

OnReloadPorts == OnReloadFile(File(FALSE, CfgPorts))
OnReloadMoved == OnReloadFile(File(FALSE, CfgMoved))

LifecycleNext ==
    \/ Next
    \/ OnReloadPorts
    \/ OnReloadMoved

LifecycleSpec == LifecycleInit /\ [][LifecycleNext]_vars

\* the services in the tables that the engine has created
EngineCreated(k) == {key \in DOMAIN k.Services : key.address # ForeignVIP}

\* C33 (lifecycle of kernel records): after a reconcile pass in which every call
\* succeeded, every service the engine has created is part of the expansion of the
\* snapshot the pass was made for (a service that left the expansion through a reload of
\* the ports, the protocol or the managed VIP has been deleted), and after a disable pass
\* in which every call succeeded none of them is left.
C33_Lifecycle ==
    AppliedCleanly =>
        /\ lastApply.path = "reconcile" =>
              EngineCreated(lastApply.after) \subseteq DOMAIN expandConfig(lastApply.desired, lastApply.vip)
        /\ lastApply.path = "disable" => EngineCreated(lastApply.after) = {}

(***************************************************************************)
(* Claims about the probers the engine runs (checked under ShutdownSpec,   *)
(* whose reloads include a file with two backends at one address).         *)
(***************************************************************************)
\* the engine is past startup and not inside the scheduler part of a reload
SchedulerSettled == pc \in {"sync", "reload_flags", "idle", "rec_snap", "rec_apply", "dis_snap", "dis_apply"}

TargetKeys(targets) == {targets[i].Key : i \in 1..Len(targets)}

\* one prober per target key of the current snapshot, all of them started for it
ProbersMatchSnapshot ==
    /\ {id.key : id \in DOMAIN runners} = TargetKeys(healthTargets(cfg.Services))
    /\ \A id, other \in DOMAIN runners : id.key = other.key => id = other
    /\ \A id \in DOMAIN runners : id.sched = hist.snapshotGen

\* C34 (scheduler rebuild): once startup or a reload that installed its file has got past
\* the scheduler, the running probers are one per (service name, backend address) pair of
\* the health-enabled services of the current snapshot, none of them was started for an
\* earlier snapshot, and every prober starts in state Unknown with no weight and no streak.
C34_SchedulerRebuild ==
    /\ [](SchedulerSettled => ProbersMatchSnapshot)
    /\ [][\A id \in DOMAIN runners' \ DOMAIN runners :
             runners'[id] = NewRunner(runners'[id].target) /\ runners'[id].state = "UNKNOWN"]_vars

(***************************************************************************)
(* StartSpec: Scheduler.Start called once on a new scheduler, with lists   *)
(* that hold an invalid target or a duplicate key; the runners it started  *)
(* then probe and call the recording observer.  scheduler is 1 when Start  *)
(* returned nil and 0 when it returned an error.                           *)
(***************************************************************************)
StartTargetLists ==
    { <<Target("10.0.0.1", 1, 1, 5)>>,
      <<Target("10.0.0.1", 1, 1, 5), Target("10.0.0.2", 1, 2, 5)>>,
      <<Target("10.0.0.1", 0, 1, 5)>>,
      <<Target("10.0.0.1", 1, 1, 5), Target("10.0.0.2", 1, 0, 5)>>,
      <<Target("10.0.0.1", 1, 1, 5), Target("10.0.0.1", 2, 2, 3)>>,
      <<Target("10.0.0.1", 1, 1, 5), Target("10.0.0.2", 1, 1, 5), Target("10.0.0.1", 1, 1, 5)>> }

StartInit ==
    /\ runners = EmptyMap /\ goroutines = EmptyMap
    /\ scheduler = 0
    /\ observer = NoObserver
    /\ pc = "start" /\ cfg = NoConfig /\ kernel = EmptyKernel /\ lastApply = NoApply
    /\ cfgHash = "" /\ active = FALSE /\ pendingReconcile = FALSE /\ pendingDisable = FALSE
    /\ backendWeights = EmptyMap /\ reconcileAttempts = 0 /\ retryWait = -1
    /\ reconcileReqCh = 0 /\ reloadCh = 0 /\ local = NoLocal
    /\ emitted = <<>> /\ hist = NoHistory
    /\ cache = NewCachedManager("MockManager", FALSE, 0) /\ clock = 0
    /\ signals = NoSignals /\ stop = NoStop

\* Scheduler.Start(targets), from its first statement to its return
StartCall ==
    /\ pc = "start"
    /\ \E targets \in StartTargetLists :
         LET started == SchedulerStart(EmptyMap, 1, targets)
         IN /\ runners' = started.runners
            /\ goroutines' = [id \in DOMAIN started.runners |-> NoChange]
            /\ scheduler' = IF started.err THEN 0 ELSE 1
            /\ emitted' = IF started.err THEN <<"start_error">> ELSE <<>>
    /\ pc' = "health"
    /\ UNCHANGED <<kernel, lastApply, cfg, cfgHash, active, pendingReconcile, pendingDisable,
                   backendWeights, reconcileAttempts, retryWait, reconcileReqCh, reloadCh,
                   local, hist, observer, cache, clock, signals, stop>>

StartNext ==
    \/ StartCall
    \/ \E id \in DOMAIN runners : HealthProbe(id)
    \/ \E id \in DOMAIN runners : HealthStateCallback(id)
    \/ \E id \in DOMAIN runners : HealthWeightCallback(id)

StartSpec == StartInit /\ [][StartNext]_vars

StartFailed == pc = "health" /\ scheduler = 0

\* C35 (Start is all-or-nothing): when Scheduler.Start has returned an error, for an
\* invalid target or for a duplicate key anywhere in the list, no prober started by the
\* call is running and the observer never receives a callback.
C35_StartAllOrNothing ==
    StartFailed => (runners = EmptyMap /\ observer = NoObserver)

(***************************************************************************)
(* Claims about what makes the engine reload (checked under ShutdownSpec). *)
(* reloadCh counts what a receive on the reload channel can return: the    *)
(* buffered notification, or the zero value of the closed channel.         *)
(***************************************************************************)
\* Run takes "case <-e.reloadCh" and enters onReload
ReloadHandlerRuns == InSelect(pc) /\ reloadCh = 1 /\ reloadCh' = 0

\* C36 (reloads only on reload signals): each run of the reload handler takes one
\* notification from the reload channel, and once the context is cancelled and the reload
\* channel is closed the engine starts no reload (and with it no scheduler restart and no
\* Apply of a reload) before Run returns.
C36_ReloadsOnlyOnSignals ==
    [][/\ (pc = "idle" /\ (pc' = "stop_sched" \/ emitted' = <<"reload_failed">>)) => ReloadHandlerRuns
       /\ ReloadHandlerRuns => ~signals.closed]_vars

(***************************************************************************)
(* Claims about the engine's mode flags (checked under Spec).              *)
(***************************************************************************)
\* C37 (mode invariant): pending-disable is never set while the engine is active; the step
\* that makes the engine active also sets pending-reconcile and clears pending-disable,
\* and the step that makes it standby also clears pending-reconcile and sets
\* pending-disable.
C37_ModeInvariant ==
    /\ [](pendingDisable => ~active)
    /\ [][/\ (~active /\ active') => (pendingReconcile' /\ ~pendingDisable')
          /\ (active /\ ~active') => (~pendingReconcile' /\ pendingDisable')]_vars

\* the engine has acquired the VIP while the disable pass of the release before it had
\* failed and pending-disable was still set
C37_Witness ==
    /\ emitted = <<"vip_acquired", "transition_acquire">>
    /\ active /\ pendingReconcile /\ ~pendingDisable
    /\ lastApply.path = "disable" /\ lastApply.err

(***************************************************************************)
(* Claims about a tick whose VIP query fails (checked under Spec).         *)
(***************************************************************************)
\* C38 (a failed VIP query changes nothing): a tick on which the presence query returns an
\* error leaves the active flag, the pending flags, the weight map, the retry counter and
\* the retry deadline (of which one tick interval less is left) as they were, emits no
\* vip_acquired or vip_released event, makes no Apply call and returns to the loop.
C38_FailedQueryChangesNothing ==
    [][OnVIPTickOutcome("error") =>
          /\ UNCHANGED <<active, pendingReconcile, pendingDisable, backendWeights,
                         reconcileAttempts, cfg, cfgHash, scheduler, runners>>
          /\ retryWait' = Elapse(retryWait)
          /\ \A i \in 1..Len(emitted') : emitted'[i] \notin VIPEvents
          /\ lastApply' = lastApply /\ kernel' = kernel
          /\ pc' = "idle"]_vars

\* the query has just failed on an active engine with a reconcile pending, a retry
\* deadline outstanding and a published weight
C38_Witness ==
    /\ emitted = <<"vip_check_failed">> /\ pc = "idle"
    /\ active /\ pendingReconcile /\ reconcileAttempts > 0 /\ retryWait >= 0
    /\ backendWeights # EmptyMap

(***************************************************************************)
(* Claims about the cache's counters (checked under CacheSpec).            *)
(***************************************************************************)
\* the read call of goroutine g comes to its end in this step
ReadCompletes(g) ==
    /\ goroutines[g].call \in CacheReads
    /\ goroutines[g].pc \in {"hit", "slow", "fetch", "store"}
    /\ goroutines'[g].pc = "return"

\* C39 (cache statistics are exact): with the cache enabled, every GetServices or
\* GetDestinations call that comes to its end, alone or next to other calls, adds one to
\* hits and nothing to misses when it was answered from the cache, and one to misses and
\* nothing to hits when it went to the inner manager; so hits + misses is the number of
\* completed calls.
C39_StatsExact ==
    [][\A g \in Callers :
          (cache.enabled /\ ReadCompletes(g)) =>
              IF goroutines'[g].hit
              THEN cache'.hits = cache.hits + 1 /\ cache'.misses = cache.misses
              ELSE cache'.misses = cache.misses + 1 /\ cache'.hits = cache.hits]_vars


(***************************************************************************)
(* C40: health monotonicity within a streak                                *)
(***************************************************************************)

\* the probe of runner id in this step succeeded / failed ("r.consecutiveSuccesses++",
\* "r.consecutiveFailures++" in Scheduler.tick)
ProbeSucceeded(id) ==
    /\ id \in DOMAIN runners'
    /\ runners'[id].consecutiveSuccesses = runners[id].consecutiveSuccesses + 1
ProbeFailed(id) ==
    /\ id \in DOMAIN runners'
    /\ runners'[id].consecutiveFailures = runners[id].consecutiveFailures + 1

====
